---- MODULE Spec2Model ----
(***************************************************************************)
(* Model of the Google Drive folder synchronisation of Panora              *)
(* (packages/api/src/filestorage/folder/services/googledrive/index.ts):    *)
(* the incremental parent resolution (processFoldersWithParents and its    *)
(* fallback handleUnresolvedFolders) and the rate-limited executor         *)
(* (executeWithRetry, isRateLimitError).                                   *)
(*                                                                         *)
(* Remote ids and internal ids are strings, as in the code.  The string    *)
(* "root" is both the default remote parent (folder.parents?.[0] ||        *)
(* 'root') and the marker resolveParentId returns for a drive root.        *)
(***************************************************************************)
EXTENDS Integers, Sequences, FiniteSets, TLC

\* ------------------------------------------------------------------ bounds
\* number of remote folder ids of the connection
NumFolders == 3

\* number of folders already persisted when a run of LiveSpec starts
MaxLiveStored == 1
\* the full scan stops listing once it has collected this many folders (a
\* drive whose folders list each other has no last level)
MaxScanned == 4
\* failed remote calls in one full scan
MaxCallFailures == 1
\* a remote listing has at most MaxPages pages of at most MaxPageSize entities
MaxPages == 3
MaxPageSize == 2
\* modification times are 1..MaxTime; MaxRuns sync runs are followed
MaxTime == 2
MaxRuns == 3
\* a batch has at most MaxPermFolders folders of at most MaxPermissions
\* embedded permissions each
MaxPermFolders == 2
MaxPermissions == 2
\* the time a remote call takes to answer, in ms: a quick and a slow answer
FastCall == 50
SlowCall == 200

\* ------------------------------------------------------- program constants
RATE_LIMIT_DELAY == 100
MAX_API_RETRIES == 3
BASE_BACKOFF_MS == 1000

\* ---------------------------------------------------------------- universe
FolderNames == <<"f1", "f2", "f3", "f4">>
FolderIds == {FolderNames[i] : i \in 1..NumFolders}

\* uuidv4(): the n-th value minted in a behaviour; the ids persisted before
\* the run are the first NumFolders values of the pool
UuidPool == <<"u1", "u2", "u3", "u4", "u5", "u6", "u7", "u8", "u9", "u10">>
uuidv4(n) == UuidPool[n]

\* JavaScript null
Null == "<null>"

\* the ids returned by fetchDriveIds (shared drives and the root drive)
DriveIds == {"d1"}

\* ------------------------------------------------------------------- maps
EmptyMap == [k \in {} |-> Null]
Has(m, k) == k \in DOMAIN m
Put(m, k, v) == [x \in (DOMAIN m) \cup {k} |-> IF x = k THEN v ELSE m[x]]

\* the element of a singleton set
TheValue(S) == CHOOSE x \in S : TRUE

\* JavaScript truthiness of a value that is null or a non-empty string
Truthy(v) == v # Null

VARIABLES
  \* ---- the persisted store and the remote drive
  store,               \* fs_folders of the connection: remote_id -> [id, parent]
  remote,              \* the drive: folder id -> parents (<<>> or <<p>>)
  \* ---- processFoldersWithParents
  pc,                  \* position of the sync run
  folders,             \* the batch returned by getModifiedFolders
  folderIdToInternalIdMap,
  foldersToSync,
  remainingFolders,
  parentLookupCache,
  passes,              \* log: [remaining, pending] of every pass of the loop
  \* ---- handleUnresolvedFolders
  pending,             \* the folders handed to fallback resolution
  remote_folders,      \* snapshot Map(foldersToSync) taken at line 457
  walks,               \* one getInternalParentRecursive chain per pending folder
  circularWarnings,    \* folder ids logged by "Circular reference detected"
  uuidCount,           \* number of uuidv4() values minted so far
  \* ---- executeWithRetry
  xpc,                 \* position of one executeWithRetry call
  retryCount,
  attempts,            \* log: the outcome of every attempt of the operation
  delays,              \* log: every delay(ms) awaited, in order
  xresult,             \* what the call returned or threw
  \* ---- recursiveGetGoogleDriveFolders, on the clock of the event loop
  now,                 \* milliseconds since the run began
  scanpc,              \* position of the full scan
  scans,               \* the remote calls of the scan, one per populateFolders
  allFolders,          \* googleDriveFolders, the scan's output
  callStarts,          \* log: the time at which each operation() was invoked
  \* ---- one paginated listing
  listing,             \* which drain loop runs: "children", "modified", "drives"
  pageSizes,           \* the remote listing: the number of entities of each page
  pageToken,           \* the page to ask for next (0: null)
  collected,           \* the accumulator of the loop (folders, driveIds)
  dpc,                 \* position of the listing
  dRetry,              \* retryCount of the executeWithRetry call around it
  events,              \* log: every delay awaited and every page requested
  \* ---- sync, run after run on one linked user
  connection,          \* whether prisma.connections.findFirst finds one
  drive,               \* the remote folders: id -> modifiedTime
  fs_folders,          \* the persisted folders: remote_id -> remote_modified_at
  syncpc,              \* position of the current run
  mode,                \* the fetch modes the run has entered
  lastSyncTime,        \* what getLastSyncTime returned to the run
  syncFolders,         \* folders, the batch the run fetched
  committed,           \* how many records of the batch have been persisted
  runs,                \* log: [watermark, mode, outcome] of every finished run
  steps,               \* log: what the current run has called and been answered
  \* ---- ingestPermissionsForFolders
  pinput,              \* the folders as they were passed in
  pfolders,            \* folders, rewritten in place
  ppc,                 \* position of the call
  ingestCalls,         \* log: the argument of every ingestService.ingestData call
  ingestResult,        \* what ingestData answered
  \* ---- one resolveParentId call on its own
  asked,               \* the folder whose parent the call resolves
  answer,              \* what the call, and line 432 after it, made of it
  \* ---- mapSingleStageToUnified
  stage,               \* the remote record: attribute -> value
  customFieldMappings, \* [supplied, pairs]: the optional argument
  unified,             \* the record the mapper returned
  \* ---- handleCallback of the helpscout connection service
  connections,         \* the connections table, rows in insertion order
  cbpc,                \* position of every callback in flight
  isNotUnique,         \* what findFirst answered to each callback
  data,                \* the token response each callback received
  minted               \* number of uuidv4() values the service has minted

rvars == <<store, remote, pc, folders, folderIdToInternalIdMap, foldersToSync,
           remainingFolders, parentLookupCache, passes, pending,
           remote_folders, walks, circularWarnings, uuidCount>>
xvars == <<xpc, retryCount, attempts, delays, xresult>>
svars == <<now, scanpc, scans, allFolders, callStarts>>
dvars == <<listing, pageSizes, pageToken, collected, dpc, dRetry, events>>
yvars == <<connection, drive, fs_folders, syncpc, mode, lastSyncTime,
           syncFolders, committed, runs, steps>>
pvars == <<pinput, pfolders, ppc, ingestCalls, ingestResult>>
qvars == <<asked, answer>>
mvars == <<stage, customFieldMappings, unified>>
hvars == <<connections, cbpc, isNotUnique, data, minted>>
uvars == <<qvars, mvars, hvars>>
ovars == <<svars, dvars, yvars, pvars, uvars>>
vars == <<rvars, xvars, ovars>>

\* ============================================================ the executor

\* String.prototype.includes
includes(s, sub) ==
  \E i \in 1..(Len(s) - Len(sub) + 1) : SubSeq(s, i, i + Len(sub) - 1) = sub

\* A thrown value: type is typeof, fields the properties it has ('code',
\* 'message'); code is an HTTP status (0 when the property is absent) and
\* message a string, or Null when it is absent or not a string.
ErrorValue(type, fields, code, message) ==
  [type |-> type, fields |-> fields, code |-> code, message |-> message]

NoError == ErrorValue("none", {}, 0, Null)

\* the failures the operation is made to throw
Errors ==
  {ErrorValue("object", {"code", "message"}, 429, "Rate Limit Exceeded"),
   ErrorValue("object", {"code", "message"}, 403, "quota exceeded"),
   ErrorValue("object", {"code", "message"}, 429, Null),
   ErrorValue("object", {"code", "message"}, 500, "backend error"),
   ErrorValue("object", {"code", "message"}, 403, "Quota exceeded"),
   ErrorValue("object", {"message"}, 0, "quota exceeded"),
   ErrorValue("object", {"code"}, 429, Null),
   ErrorValue("string", {}, 0, Null)}

\* the value the operation resolves to
Response == "response"

NoResult == [kind |-> "none", value |-> Null, error |-> NoError]

\* isRateLimitError without the message test of line 702
isRateLimitErrorCodeOnly(error) ==
  /\ error.type = "object"
  /\ "code" \in error.fields
  /\ "message" \in error.fields
  /\ error.code = 429

isRateLimitError(error) ==
  /\ error.type = "object"
  /\ "code" \in error.fields
  /\ "message" \in error.fields
  /\ \/ error.code = 429
     \/ (error.message # Null /\ includes(error.message, "quota"))

\* `${error.message}` inside the template literal of line 682
MessageText(error) == IF error.message = Null THEN "null" ELSE error.message

\* a linear backoff
backoffTimeLinear(rc) == BASE_BACKOFF_MS * rc

\* a backoff whose exponent counts the failures, not the retries
backoffTimeFromOne(rc) == BASE_BACKOFF_MS * (2 ^ (rc + 1))

\* BASE_BACKOFF_MS * Math.pow(2, retryCount)
backoffTime(rc) == BASE_BACKOFF_MS * (2 ^ rc)

TerminalError(error) ==
  ErrorValue("object", {"message"}, 0,
             "Failed after " \o ToString(MAX_API_RETRIES)
             \o " retries. Last error: " \o MessageText(error))

Thrown(error) == [kind |-> "thrown", value |-> Null, error |-> error]

\* onFailure with the ceiling test off by one (retryCount > MAX_API_RETRIES)
onFailureOffByOne(error, rc) ==
  IF ~isRateLimitError(error) THEN [pc |-> "thrown", result |-> Thrown(error)]
  ELSE IF rc > MAX_API_RETRIES
  THEN [pc |-> "thrown", result |-> Thrown(TerminalError(error))]
  ELSE [pc |-> "backoff", result |-> NoResult]

\* onFailure that wraps every failure in a new Error
onFailureWrapsAll(error, rc) ==
  IF ~isRateLimitError(error)
  THEN [pc |-> "thrown", result |-> Thrown(TerminalError(error))]
  ELSE IF rc >= MAX_API_RETRIES
  THEN [pc |-> "thrown", result |-> Thrown(TerminalError(error))]
  ELSE [pc |-> "backoff", result |-> NoResult]

\* the catch block, lines 675-688: what the call does with a failure of the
\* attempt made with this retryCount
onFailure(error, rc) ==
  IF ~isRateLimitError(error) THEN [pc |-> "thrown", result |-> Thrown(error)]
  ELSE IF rc >= MAX_API_RETRIES
  THEN [pc |-> "thrown", result |-> Thrown(TerminalError(error))]
  ELSE [pc |-> "backoff", result |-> NoResult]

\* ============================================================ the resolver

\* const parentId = folder.parents?.[0] || 'root'
ParentRef(folder) ==
  IF Len(folder.parents) > 0 THEN folder.parents[1] ELSE "root"

\* prisma.fs_folders.findFirst({remote_id, id_connection}) ?.id_fs_folder || null
findFolderId(st, remoteId) ==
  IF Has(st, remoteId) THEN st[remoteId].id ELSE Null

\* resolveParentId that consults the lookup cache before the map of the run
resolveParentIdSyncCacheFirst(parentId, idMap, cache) ==
  IF Has(cache, parentId) THEN [hit |-> TRUE, result |-> cache[parentId]]
  ELSE IF Has(idMap, parentId) THEN [hit |-> TRUE, result |-> idMap[parentId]]
  ELSE IF parentId \in DriveIds \/ parentId = "root"
       THEN [hit |-> TRUE, result |-> "root"]
  ELSE [hit |-> FALSE, result |-> Null]

\* resolveParentId that tests the drive ids before the map of the run
resolveParentIdSyncRootsFirst(parentId, idMap, cache) ==
  IF parentId \in DriveIds \/ parentId = "root"
  THEN [hit |-> TRUE, result |-> "root"]
  ELSE IF Has(idMap, parentId) THEN [hit |-> TRUE, result |-> idMap[parentId]]
  ELSE IF Has(cache, parentId) THEN [hit |-> TRUE, result |-> cache[parentId]]
  ELSE [hit |-> FALSE, result |-> Null]

\* resolveParentId up to its first await: the resolved-this-run map, the
\* drive ids, the lookup cache.  hit = FALSE when the store must be queried.
resolveParentIdSync(parentId, idMap, cache) ==
  IF Has(idMap, parentId) THEN [hit |-> TRUE, result |-> idMap[parentId]]
  ELSE IF parentId \in DriveIds \/ parentId = "root"
       THEN [hit |-> TRUE, result |-> "root"]
  ELSE IF Has(cache, parentId) THEN [hit |-> TRUE, result |-> cache[parentId]]
  ELSE [hit |-> FALSE, result |-> Null]

\* resolveParentId as a whole: [result, cache]
resolveParentId(parentId, idMap, cache, st) ==
  LET s == resolveParentIdSync(parentId, idMap, cache)
  IN IF s.hit THEN [result |-> s.result, cache |-> cache]
     ELSE LET result == findFolderId(st, parentId)
          IN [result |-> result, cache |-> Put(cache, parentId, result)]

\* getIntenalIdForFolder: the persisted id, else a fresh uuid. [id, count]
getIntenalIdForFolder(folderId, st, count) ==
  IF Truthy(findFolderId(st, folderId))
  THEN [id |-> findFolderId(st, folderId), count |-> count]
  ELSE [id |-> uuidv4(count + 1), count |-> count + 1]

\* createFolderWithInternalIds without the test of line 497
createFolderKeepsRoot(folder, internalParentId, internalId) ==
  [id |-> folder.id, parents |-> folder.parents,
   internal_parent_folder_id |-> internalParentId,
   internal_id |-> internalId]

\* lines 490-501
createFolderWithInternalIds(folder, internalParentId, internalId) ==
  [id |-> folder.id, parents |-> folder.parents,
   internal_parent_folder_id |->
     IF internalParentId = "root" THEN Null ELSE internalParentId,
   internal_id |-> internalId]

\* isStuckInLoop that reports every pass that leaves a folder pending
isStuckInLoopAnyPending(pend, remaining) == Len(pend) > 0

isStuckInLoop(pend, remaining) == Len(pend) = Len(remaining)

\* the body of the for loop without the else branch of lines 451-453
PassFolderDropsUnresolved(acc, folder) ==
  LET r == resolveParentId(ParentRef(folder), acc.idMap, acc.cache, store)
  IN IF Truthy(r.result)
     THEN LET n == getIntenalIdForFolder(folder.id, store, acc.count)
          IN [idMap |-> Put(acc.idMap, folder.id, n.id),
              cache |-> r.cache,
              out |-> Append(acc.out,
                        createFolderWithInternalIds(folder, r.result, n.id)),
              pend |-> acc.pend,
              count |-> n.count]
     ELSE [acc EXCEPT !.cache = r.cache]

\* the body of the for loop of one pass (lines 428-454), folded over
\* remainingFolders; acc = [idMap, cache, out, pend, count]
PassFolder(acc, folder) ==
  LET r == resolveParentId(ParentRef(folder), acc.idMap, acc.cache, store)
  IN IF Truthy(r.result)
     THEN LET n == getIntenalIdForFolder(folder.id, store, acc.count)
          IN [idMap |-> Put(acc.idMap, folder.id, n.id),
              cache |-> r.cache,
              out |-> Append(acc.out,
                        createFolderWithInternalIds(folder, r.result, n.id)),
              pend |-> acc.pend,
              count |-> n.count]
     ELSE [acc EXCEPT !.cache = r.cache, !.pend = Append(@, folder)]

\* (the accumulator is bound to its value before the next iteration)
RECURSIVE PassOver(_, _, _)
PassOver(acc, rem, i) ==
  IF i > Len(rem) THEN acc
  ELSE TheValue({PassOver(a, rem, i + 1) : a \in {PassFolder(acc, rem[i])}})

\* new Map(foldersToSync.map((folder) => [folder.id, folder]))
RemoteFoldersOf(out) ==
  [k \in {out[i].id : i \in 1..Len(out)} |->
     LET i == CHOOSE j \in 1..Len(out) :
                 out[j].id = k /\ \A l \in (j + 1)..Len(out) : out[l].id # k
     IN [id |-> out[i].id, parents |-> out[i].parents]]

\* ---- one ancestor walk.  A walk is [folder, visited, at, target, result,
\* cause]: at = "db" while prisma is queried for target, "fetch" while
\* executeWithRetry(drive.files.get(target)) is in flight, "done" when
\* getInternalParentRecursive has returned result.
NewWalk(folder) ==
  [start |-> folder, folder |-> folder, visited |-> {}, at |-> "check",
   target |-> Null, result |-> Null, cause |-> "none", warned |-> {}]

Returned(w, value, cause) ==
  [w EXCEPT !.at = "done", !.result = value, !.cause = cause]

\* lines 546-567 after resolveParentId answered r for w.target
RECURSIVE AfterResolve(_, _, _, _, _)
RECURSIVE Hop(_, _, _, _)
AfterResolve(w, r, idMap, cache, rf) ==
  IF Truthy(r) THEN Returned(w, r, "resolved")
  ELSE IF Has(rf, w.target)
       THEN Hop([w EXCEPT !.folder = rf[w.target]], idMap, cache, rf)
       ELSE [w EXCEPT !.at = "fetch"]

\* Hop without the visited-set test of lines 531-534
HopNoVisitedCheck(w, idMap, cache, rf) ==
  LET p == ParentRef(w.folder)
      w1 == [w EXCEPT !.visited = @ \cup {p}, !.target = p]
      s == resolveParentIdSync(p, idMap, cache)
  IN IF s.hit THEN AfterResolve(w1, s.result, idMap, cache, rf)
     ELSE [w1 EXCEPT !.at = "db"]

\* Hop that returns null on a revisit without logging the warning
HopNoWarning(w, idMap, cache, rf) ==
  LET p == ParentRef(w.folder)
  IN IF p \in w.visited
     THEN Returned(w, Null, "cycle")
     ELSE LET w1 == [w EXCEPT !.visited = @ \cup {p}, !.target = p]
              s == resolveParentIdSync(p, idMap, cache)
          IN IF s.hit THEN AfterResolve(w1, s.result, idMap, cache, rf)
             ELSE [w1 EXCEPT !.at = "db"]

\* getInternalParentRecursive(w.folder, w.visited) up to its next await
Hop(w, idMap, cache, rf) ==
  LET p == ParentRef(w.folder)
  IN IF p \in w.visited
     THEN [Returned(w, Null, "cycle") EXCEPT !.warned = @ \cup {w.folder.id}]
     ELSE LET w1 == [w EXCEPT !.visited = @ \cup {p}, !.target = p]
              s == resolveParentIdSync(p, idMap, cache)
          IN IF s.hit THEN AfterResolve(w1, s.result, idMap, cache, rf)
             ELSE [w1 EXCEPT !.at = "db"]

\* FinishedFolder that keeps the remote parent id when the walk found none
FinishedFolderKeepsRemoteParent(w, internalId) ==
  [id |-> w.start.id, parents |-> w.start.parents,
   internal_parent_folder_id |->
     IF w.result = Null THEN ParentRef(w.start) ELSE w.result,
   internal_id |-> internalId]

\* lines 579-586: the continuation of a returned walk
FinishedFolder(w, internalId) ==
  [id |-> w.start.id, parents |-> w.start.parents,
   internal_parent_folder_id |-> w.result,
   internal_id |-> internalId]

\* ---- the continuation of walk i after a step that left it as w: lines
\* 579-586 run in the same turn of the event loop once the walk has returned
Settle(i, w) ==
  /\ walks' = [walks EXCEPT ![i] = w]
  /\ circularWarnings' = circularWarnings \cup w.warned
  /\ IF w.at = "done"
     THEN /\ uuidCount' = uuidCount + 1
          /\ folderIdToInternalIdMap' =
               Put(folderIdToInternalIdMap, w.start.id, uuidv4(uuidCount + 1))
          /\ foldersToSync' =
               Append(foldersToSync, FinishedFolder(w, uuidv4(uuidCount + 1)))
     ELSE UNCHANGED <<uuidCount, folderIdToInternalIdMap, foldersToSync>>

\* pending.map(async ...) at line 578: every walk runs to its first await
\* against the same maps; the walks that returned at once are then finished
\* in order.  acc = [idMap, out, count]
RECURSIVE FinishReturned(_, _, _)
FinishReturned(acc, ws, i) ==
  IF i > Len(ws) THEN acc
  ELSE IF ws[i].at = "done"
       THEN TheValue({FinishReturned(a, ws, i + 1) : a \in
              {[idMap |-> Put(acc.idMap, ws[i].start.id,
                              uuidv4(acc.count + 1)),
                out |-> Append(acc.out,
                          FinishedFolder(ws[i], uuidv4(acc.count + 1))),
                count |-> acc.count + 1]}})
       ELSE FinishReturned(acc, ws, i + 1)

LaunchWalks(pend, idMap, cache, rf) ==
  [i \in 1..Len(pend) |-> Hop(NewWalk(pend[i]), idMap, cache, rf)]

\* ------------------------------------------------------------------ world
\* the parents field of a remote folder: absent, a drive, or another folder
ParentsValues == {<<>>} \cup {<<p>> : p \in DriveIds \cup FolderIds}

Remotes ==
  UNION {[S -> ParentsValues] : S \in SUBSET FolderIds}

\* sequences without repetition over a set
RECURSIVE Orderings(_)
Orderings(S) ==
  IF S = {} THEN {<<>>}
  ELSE UNION {{<<x>> \o t : t \in Orderings(S \ {x})} : x \in S}

\* the listings getModifiedFolders can return for a drive: any of its
\* folders, in any order
Batches(rem) ==
  {[i \in 1..Len(o) |-> [id |-> o[i], parents |-> rem[o[i]]]] :
     o \in UNION {Orderings(S) : S \in SUBSET (DOMAIN rem)}}

\* n-th ancestor of k under a parent function par (Null when there is none)
RECURSIVE Up(_, _, _)
Up(par, k, n) ==
  IF n = 0 \/ k = Null THEN k
  ELSE Up(par, IF k \in DOMAIN par THEN par[k] ELSE Null, n - 1)

OnCycle(par, k) == \E n \in 1..Cardinality(DOMAIN par) : Up(par, k, n) = k

\* the stores left by earlier successful runs: a forest over some of the
\* folders; folder FolderNames[i] was given the i-th uuid
PersistedId(f) == uuidv4(CHOOSE i \in 1..NumFolders : FolderNames[i] = f)

Forests ==
  {par \in UNION {[S -> S \cup {Null}] : S \in SUBSET FolderIds} :
     \A k \in DOMAIN par : ~OnCycle(par, k)}

StoreOf(par) ==
  [f \in DOMAIN par |->
     [id |-> PersistedId(f),
      parent |-> IF par[f] = Null THEN Null ELSE PersistedId(par[f])]]

\* ---------------------------------------------------------------- actions
ExecutorIdle ==
  /\ xpc = "off"
  /\ retryCount = 0
  /\ attempts = <<>>
  /\ delays = <<>>
  /\ xresult = NoResult

ScanIdle ==
  /\ now = 0
  /\ scanpc = "off"
  /\ scans = <<>>
  /\ allFolders = <<>>
  /\ callStarts = <<>>

DrainIdle ==
  /\ listing = "none"
  /\ pageSizes = <<>>
  /\ pageToken = 0
  /\ collected = <<>>
  /\ dpc = "off"
  /\ dRetry = 0
  /\ events = <<>>

\* getLastSyncTime's null (line 665)
NoTime == 0

SyncIdle ==
  /\ connection = FALSE
  /\ drive = EmptyMap
  /\ fs_folders = EmptyMap
  /\ syncpc = "off"
  /\ mode = {}
  /\ lastSyncTime = NoTime
  /\ syncFolders = <<>>
  /\ committed = 0
  /\ runs = <<>>
  /\ steps = <<>>

NoIngest == [kind |-> "none", value |-> <<>>]

PermIdle ==
  /\ pinput = <<>>
  /\ pfolders = <<>>
  /\ ppc = "off"
  /\ ingestCalls = <<>>
  /\ ingestResult = NoIngest

NoAnswer == [kind |-> "none", link |-> Null]

NoFolder == [id |-> Null, parents |-> <<>>]

LookupIdle ==
  /\ asked = NoFolder
  /\ answer = NoAnswer

\* customFieldMappings left out of the call
NoMappings == [supplied |-> FALSE, pairs |-> <<>>]

MapperIdle ==
  /\ stage = EmptyMap
  /\ customFieldMappings = NoMappings
  /\ unified = EmptyMap

\* findFirst found no row; no token response yet
NoRow == [id_connection |-> Null]

NoData == [access_token |-> 0, refresh_token |-> 0]

CallbackIdle ==
  /\ connections = <<>>
  /\ cbpc = EmptyMap
  /\ isNotUnique = EmptyMap
  /\ data = EmptyMap
  /\ minted = 0

UnitsIdle ==
  /\ LookupIdle
  /\ MapperIdle
  /\ CallbackIdle

OthersIdle ==
  /\ UnitsIdle
  /\ ScanIdle
  /\ DrainIdle
  /\ SyncIdle
  /\ PermIdle

Init ==
  /\ store \in {StoreOf(par) : par \in Forests}
  /\ remote \in Remotes
  /\ pc = "idle"
  /\ folders = <<>>
  /\ folderIdToInternalIdMap = EmptyMap
  /\ foldersToSync = <<>>
  /\ remainingFolders = <<>>
  /\ parentLookupCache = EmptyMap
  /\ passes = <<>>
  /\ pending = <<>>
  /\ remote_folders = EmptyMap
  /\ walks = <<>>
  /\ circularWarnings = {}
  /\ uuidCount = NumFolders
  /\ ExecutorIdle
  /\ OthersIdle

\* getFoldersIncremental, lines 396-407: the listing, then the call of
\* processFoldersWithParents (lines 420-423)
StartRun ==
  /\ pc = "idle"
  /\ \E b \in Batches(remote) :
       /\ folders' = b
       /\ remainingFolders' = b
  /\ pc' = "passes"
  /\ UNCHANGED <<store, remote, folderIdToInternalIdMap, foldersToSync,
                 parentLookupCache, passes, pending, remote_folders, walks,
                 circularWarnings, uuidCount>>
  /\ UNCHANGED xvars
  /\ UNCHANGED ovars

\* one iteration of the while loop, lines 425-474
Pass ==
  /\ pc = "passes"
  /\ Len(remainingFolders) > 0
  /\ \E acc \in {PassOver([idMap |-> folderIdToInternalIdMap,
                           cache |-> parentLookupCache,
                           out |-> foldersToSync,
                           pend |-> <<>>,
                           count |-> uuidCount], remainingFolders, 1)} :
        /\ parentLookupCache' = acc.cache
        /\ passes' = Append(passes,
                       [remaining |-> remainingFolders, pending |-> acc.pend])
        /\ IF isStuckInLoop(acc.pend, remainingFolders)
           THEN \E rf \in {RemoteFoldersOf(acc.out)} :
                \E ws \in {LaunchWalks(acc.pend, acc.idMap, acc.cache, rf)} :
                \E fin \in {FinishReturned([idMap |-> acc.idMap,
                                            out |-> acc.out,
                                            count |-> acc.count], ws, 1)} :
                   /\ pc' = "fallback"
                   /\ pending' = acc.pend
                   /\ remote_folders' = rf
                   /\ walks' = ws
                   /\ circularWarnings' =
                        circularWarnings \cup
                          UNION {ws[i].warned : i \in 1..Len(ws)}
                   /\ folderIdToInternalIdMap' = fin.idMap
                   /\ foldersToSync' = fin.out
                   /\ uuidCount' = fin.count
                   /\ UNCHANGED remainingFolders
           ELSE /\ pc' = "passes"
                /\ remainingFolders' = acc.pend
                /\ folderIdToInternalIdMap' = acc.idMap
                /\ foldersToSync' = acc.out
                /\ uuidCount' = acc.count
                /\ UNCHANGED <<pending, remote_folders, walks,
                               circularWarnings>>
  /\ UNCHANGED <<store, remote, folders>>
  /\ UNCHANGED xvars
  /\ UNCHANGED ovars

\* the while condition fails: return foldersToSync (line 476)
Return ==
  /\ pc = "passes"
  /\ Len(remainingFolders) = 0
  /\ pc' = "resolved"
  /\ UNCHANGED <<store, remote, folders, folderIdToInternalIdMap,
                 foldersToSync, remainingFolders, parentLookupCache, passes,
                 pending, remote_folders, walks, circularWarnings, uuidCount>>
  /\ UNCHANGED xvars
  /\ UNCHANGED ovars

\* prisma answers the lookup of resolveParentId (lines 610-620) inside walk i
WalkDb(i) ==
  /\ pc = "fallback"
  /\ walks[i].at = "db"
  /\ LET result == findFolderId(store, walks[i].target)
         cache == Put(parentLookupCache, walks[i].target, result)
     IN /\ parentLookupCache' = cache
        /\ \E w \in {AfterResolve(walks[i], result, folderIdToInternalIdMap,
                                  cache, remote_folders)} : Settle(i, w)
  /\ UNCHANGED <<store, remote, pc, folders, remainingFolders, passes,
                 pending, remote_folders>>
  /\ UNCHANGED xvars
  /\ UNCHANGED ovars

\* executeWithRetry(drive.files.get(target)) returns the remote folder
\* (lines 552-567)
WalkFetchOk(i) ==
  /\ pc = "fallback"
  /\ walks[i].at = "fetch"
  /\ Has(remote, walks[i].target)
  /\ LET parentFolder == [id |-> walks[i].target,
                          parents |-> remote[walks[i].target]]
     IN \E w \in {Hop([walks[i] EXCEPT !.folder = parentFolder],
                      folderIdToInternalIdMap, parentLookupCache,
                      remote_folders)} : Settle(i, w)
  /\ UNCHANGED <<store, remote, pc, folders, remainingFolders,
                 parentLookupCache, passes, pending, remote_folders>>
  /\ UNCHANGED xvars
  /\ UNCHANGED ovars

\* the call throws, its retries exhausted or with an error that is not a
\* rate limit: the walk returns null (lines 568-574).  drive.files.get
\* resolves with the file or rejects, so the test of line 563 never fires.
FetchFailures == {"exhausted", "other"}

WalkFetchFail(i) ==
  /\ pc = "fallback"
  /\ walks[i].at = "fetch"
  /\ \E kind \in FetchFailures :
       \E w \in {Returned(walks[i], Null, kind)} : Settle(i, w)
  /\ UNCHANGED <<store, remote, pc, folders, remainingFolders,
                 parentLookupCache, passes, pending, remote_folders>>
  /\ UNCHANGED xvars
  /\ UNCHANGED ovars

\* Promise.all of line 577 resolves; break; return foldersToSync
FallbackDone ==
  /\ pc = "fallback"
  /\ \A i \in 1..Len(walks) : walks[i].at = "done"
  /\ pc' = "resolved"
  /\ UNCHANGED <<store, remote, folders, folderIdToInternalIdMap,
                 foldersToSync, remainingFolders, parentLookupCache, passes,
                 pending, remote_folders, walks, circularWarnings, uuidCount>>
  /\ UNCHANGED xvars
  /\ UNCHANGED ovars

\* the ingestion of the run's output: one record per (connection,
\* remote_id); an existing record keeps its internal id
RECURSIVE UpsertAll(_, _, _)
UpsertAll(st, out, i) ==
  IF i > Len(out) THEN st
  ELSE TheValue({UpsertAll(s, out, i + 1) : s \in
         {Put(st, out[i].id,
              [id |-> IF Has(st, out[i].id) THEN st[out[i].id].id
                      ELSE out[i].internal_id,
               parent |-> out[i].internal_parent_folder_id])}})

Upsert ==
  /\ pc = "resolved"
  /\ store' = UpsertAll(store, foldersToSync, 1)
  /\ pc' = "saved"
  /\ UNCHANGED <<remote, folders, folderIdToInternalIdMap, foldersToSync,
                 remainingFolders, parentLookupCache, passes, pending,
                 remote_folders, walks, circularWarnings, uuidCount>>
  /\ UNCHANGED xvars
  /\ UNCHANGED ovars

Next ==
  \/ StartRun
  \/ Pass
  \/ Return
  \/ \E i \in 1..Len(walks) : WalkDb(i)
  \/ \E i \in 1..Len(walks) : WalkFetchOk(i)
  \/ \E i \in 1..Len(walks) : WalkFetchFail(i)
  \/ FallbackDone
  \/ Upsert

Spec == Init /\ [][Next]_vars

\* ------------------------------------------------ the executor's actions
ResolverIdle ==
  /\ store = EmptyMap
  /\ remote = EmptyMap
  /\ pc = "off"
  /\ folders = <<>>
  /\ folderIdToInternalIdMap = EmptyMap
  /\ foldersToSync = <<>>
  /\ remainingFolders = <<>>
  /\ parentLookupCache = EmptyMap
  /\ passes = <<>>
  /\ pending = <<>>
  /\ remote_folders = EmptyMap
  /\ walks = <<>>
  /\ circularWarnings = {}
  /\ uuidCount = 0

\* executeWithRetry(operation) has been called, retryCount = 0
InitRetry ==
  /\ ResolverIdle
  /\ OthersIdle
  /\ xpc = "spacing"
  /\ retryCount = 0
  /\ attempts = <<>>
  /\ delays = <<>>
  /\ xresult = NoResult

\* await this.delay(RATE_LIMIT_DELAY), line 673
Spacing ==
  /\ xpc = "spacing"
  /\ delays' = Append(delays, RATE_LIMIT_DELAY)
  /\ xpc' = "call"
  /\ UNCHANGED <<retryCount, attempts, xresult>>
  /\ UNCHANGED rvars
  /\ UNCHANGED ovars

\* return await operation(), line 674: the operation resolves
AttemptSucceeds ==
  /\ xpc = "call"
  /\ attempts' = Append(attempts, [ok |-> TRUE, error |-> NoError])
  /\ xresult' = [kind |-> "returned", value |-> Response, error |-> NoError]
  /\ xpc' = "returned"
  /\ UNCHANGED <<retryCount, delays>>
  /\ UNCHANGED rvars
  /\ UNCHANGED ovars

\* the operation rejects with error: the catch block up to its await
AttemptFails ==
  /\ xpc = "call"
  /\ \E error \in Errors :
       /\ attempts' = Append(attempts, [ok |-> FALSE, error |-> error])
       /\ xpc' = onFailure(error, retryCount).pc
       /\ xresult' = onFailure(error, retryCount).result
  /\ UNCHANGED <<retryCount, delays>>
  /\ UNCHANGED rvars
  /\ UNCHANGED ovars

\* await this.delay(backoffTime); executeWithRetry(operation, retryCount + 1)
Backoff ==
  /\ xpc = "backoff"
  /\ delays' = Append(delays, backoffTime(retryCount))
  /\ retryCount' = retryCount + 1
  /\ xpc' = "spacing"
  /\ UNCHANGED <<attempts, xresult>>
  /\ UNCHANGED rvars
  /\ UNCHANGED ovars

NextRetry ==
  \/ Spacing
  \/ AttemptSucceeds
  \/ AttemptFails
  \/ Backoff

SpecRetry == InitRetry /\ [][NextRetry]_vars

\* the steps of one resolve call; each awaited lookup or remote call
\* eventually returns or fails, and the event loop runs every continuation
ResolveStep ==
  \/ Pass
  \/ Return
  \/ \E i \in 1..Len(walks) : WalkDb(i)
  \/ \E i \in 1..Len(walks) : WalkFetchOk(i)
  \/ \E i \in 1..Len(walks) : WalkFetchFail(i)
  \/ FallbackDone

LiveInit == Init /\ Cardinality(DOMAIN store) <= MaxLiveStored

LiveSpec == LiveInit /\ [][Next]_vars /\ WF_vars(ResolveStep)

\* ============================================================ the full scan
\* recursiveGetGoogleDriveFolders (lines 158-273) on the clock of the event
\* loop.  Every executeWithRetry call of the scan is a record of scans:
\* at = "spacing" while delay(RATE_LIMIT_DELAY) runs, "call" while the
\* operation is in flight, "backoff" while delay(backoffTime) runs, "done"
\* when it has returned; wake is the time at which that wait ends.  Every
\* listing is answered in one page here; the drain loop is SpecDrain's.

Latencies == {FastCall, SlowCall}

\* this.executeWithRetry(operation) entered at time t: line 673 sets the timer
ScanCall(kind, parentId, internalParentId, t) ==
  [kind |-> kind, parentId |-> parentId,
   internalParentId |-> internalParentId,
   at |-> "spacing", wake |-> t + RATE_LIMIT_DELAY, retryCount |-> 0]

\* the failures drive.files.list is made to reject with
ScanErrors ==
  {ErrorValue("object", {"code", "message"}, 429, "Rate Limit Exceeded"),
   ErrorValue("object", {"code", "message"}, 500, "backend error")}

\* buildQuery (lines 181-186) as the drive answers it: the folders whose
\* parents hold parentId, or driveId when parentId is null
RECURSIVE filesOf(_, _, _)
filesOf(rem, key, i) ==
  IF i > NumFolders THEN <<>>
  ELSE (IF Has(rem, FolderNames[i])
           /\ \E k \in 1..Len(rem[FolderNames[i]]) :
                rem[FolderNames[i]][k] = key
        THEN <<[id |-> FolderNames[i], parents |-> rem[FolderNames[i]]]>>
        ELSE <<>>) \o filesOf(rem, key, i + 1)

fetchFoldersForParent(rem, parentId, driveId) ==
  filesOf(rem, IF Truthy(parentId) THEN parentId ELSE driveId, 1)

\* lines 239-242: every folder of the level gets a fresh uuid and the
\* internal id of the folder that was listed
currentLevelFolders(listed, internalParentId, count) ==
  [k \in 1..Len(listed) |->
     [id |-> listed[k].id, parents |-> listed[k].parents,
      internal_id |-> uuidv4(count + k),
      internal_parent_folder_id |-> internalParentId]]

\* populateFolders that hands its children its own internalParentId
descendKeepsParent(level, t) ==
  [k \in 1..Len(level) |->
     ScanCall("list", level[k].id, level[k].internal_parent_folder_id, t)]

\* lines 246-256: Promise.all(currentLevelFolders.map(populateFolders)):
\* every child's populateFolders runs to the delay of its executeWithRetry
\* within the same turn
descend(level, t) ==
  [k \in 1..Len(level) |->
     ScanCall("list", level[k].id, level[k].internal_id, t)]

CallsFailed(k) ==
  scans[k].retryCount + (IF scans[k].at = "backoff" THEN 1 ELSE 0)

RECURSIVE FailuresSoFar(_)
FailuresSoFar(k) == IF k = 0 THEN 0 ELSE CallsFailed(k) + FailuresSoFar(k - 1)

Waiting(k) == scans[k].at \in {"spacing", "call", "backoff"}

ScanUnchangedResolver ==
  UNCHANGED <<store, pc, folders, folderIdToInternalIdMap, foldersToSync,
              remainingFolders, parentLookupCache, passes, pending,
              remote_folders, walks, circularWarnings, dvars, yvars,
              pvars, uvars>>

\* the drives the scan is run on: every drive whose folders have one parent
\* at most, and two drives with a folder that has two parents: one where two
\* folders list each other as children, one where two folders share a child
SharedFolderDrives ==
  {[f \in {"f1", "f2"} |-> IF f = "f1" THEN <<"d1", "f2">> ELSE <<"f1">>],
   [f \in {"f1", "f2", "f3"} |->
      IF f = "f3" THEN <<"f1", "f2">> ELSE <<"d1">>]}

ScanRemotes == Remotes \cup SharedFolderDrives

\* sync runs the full scan when getLastSyncTime answers null (lines 128-139):
\* no folder is persisted for the connection, or the record that findFirst
\* returns has no remote_modified_at (line 665)
ScanStores ==
  {EmptyMap,
   [f \in {FolderNames[1]} |->
      [id |-> PersistedId(f), parent |-> Null, remote_modified_at |-> NoTime]]}

ScanInit ==
  /\ remote \in ScanRemotes
  /\ store \in ScanStores
  /\ pc = "off"
  /\ folders = <<>>
  /\ folderIdToInternalIdMap = EmptyMap
  /\ foldersToSync = <<>>
  /\ remainingFolders = <<>>
  /\ parentLookupCache = EmptyMap
  /\ passes = <<>>
  /\ pending = <<>>
  /\ remote_folders = EmptyMap
  /\ walks = <<>>
  /\ circularWarnings = {}
  /\ uuidCount = NumFolders
  /\ ExecutorIdle
  /\ UnitsIdle
  /\ DrainIdle
  /\ SyncIdle
  /\ PermIdle
  /\ now = 0
  /\ scanpc = "idle"
  /\ scans = <<>>
  /\ allFolders = <<>>
  /\ callStarts = <<>>

\* lines 162-171: the root drive id is asked for through the executor
ScanBegin ==
  /\ scanpc = "idle"
  /\ scanpc' = "scanning"
  /\ scans' = <<ScanCall("rootId", Null, Null, now)>>
  /\ UNCHANGED <<now, allFolders, callStarts, remote, uuidCount>>
  /\ ScanUnchangedResolver
  /\ UNCHANGED xvars

\* the timer of line 673 fires: return await operation() (line 674)
CallStart(i) ==
  /\ scanpc = "scanning"
  /\ scans[i].at = "spacing"
  /\ scans[i].wake = now
  /\ \E latency \in Latencies :
       scans' = [scans EXCEPT ![i].at = "call", ![i].wake = now + latency]
  /\ callStarts' = Append(callStarts, [time |-> now, call |-> i])
  /\ UNCHANGED <<now, scanpc, allFolders, remote, uuidCount>>
  /\ ScanUnchangedResolver
  /\ UNCHANGED xvars

\* the operation resolves.  rootId: fetchDriveIds follows (lines 260-261),
\* its calls made directly on the client; driveIds: the for loop of lines
\* 264-266 calls populateFolders(null, null, 0, ..., driveId); list: lines
\* 234-256
CallReturns(i) ==
  /\ scanpc = "scanning"
  /\ scans[i].at = "call"
  /\ scans[i].wake = now
  /\ \E done \in {[scans EXCEPT ![i].at = "done"]} :
       CASE scans[i].kind = "rootId" ->
              /\ \E latency \in Latencies :
                   scans' = Append(done,
                              [ScanCall("driveIds", Null, Null, now)
                                 EXCEPT !.at = "call", !.wake = now + latency])
              /\ UNCHANGED <<allFolders, uuidCount>>
         [] scans[i].kind = "driveIds" ->
              /\ scans' = Append(done,
                                 ScanCall("list", Null, Null, now))
              /\ UNCHANGED <<allFolders, uuidCount>>
         [] scans[i].kind = "list" ->
              \E listed \in {fetchFoldersForParent(remote, scans[i].parentId,
                                                   TheValue(DriveIds))} :
              \E level \in {currentLevelFolders(listed,
                              scans[i].internalParentId, uuidCount)} :
                /\ Len(allFolders) + Len(level) <= MaxScanned
                /\ uuidCount' = uuidCount + Len(level)
                /\ allFolders' = allFolders \o level
                /\ scans' = done \o descend(level, now)
  /\ UNCHANGED <<now, scanpc, callStarts, remote>>
  /\ ScanUnchangedResolver
  /\ UNCHANGED xvars

\* the operation rejects.  Through executeWithRetry the catch of lines
\* 675-688 decides; the error that leaves it rejects populateFolders, the
\* Promise.all above it and the scan (lines 219-223, 267-270).  The calls of
\* fetchDriveIds have no catch around them.
CallFails(i) ==
  /\ scanpc = "scanning"
  /\ scans[i].at = "call"
  /\ scans[i].wake = now
  /\ FailuresSoFar(Len(scans)) < MaxCallFailures
  /\ \E error \in ScanErrors :
       IF scans[i].kind # "driveIds"
          /\ onFailure(error, scans[i].retryCount).pc = "backoff"
       THEN /\ scans' = [scans EXCEPT
                           ![i].at = "backoff",
                           ![i].wake = now + backoffTime(scans[i].retryCount)]
            /\ UNCHANGED scanpc
       ELSE /\ scans' = [scans EXCEPT ![i].at = "failed"]
            /\ scanpc' = "failed"
  /\ UNCHANGED <<now, allFolders, callStarts, remote, uuidCount>>
  /\ ScanUnchangedResolver
  /\ UNCHANGED xvars

\* line 688: executeWithRetry(operation, retryCount + 1) sets its timer
BackoffDone(i) ==
  /\ scanpc = "scanning"
  /\ scans[i].at = "backoff"
  /\ scans[i].wake = now
  /\ scans' = [scans EXCEPT ![i].at = "spacing",
                            ![i].wake = now + RATE_LIMIT_DELAY,
                            ![i].retryCount = @ + 1]
  /\ UNCHANGED <<now, scanpc, allFolders, callStarts, remote, uuidCount>>
  /\ ScanUnchangedResolver
  /\ UNCHANGED xvars

\* nothing is due: the clock runs to the next timer or answer
Tick ==
  /\ scanpc = "scanning"
  /\ \E k \in 1..Len(scans) : Waiting(k)
  /\ \A k \in 1..Len(scans) : Waiting(k) => scans[k].wake > now
  /\ \E k \in 1..Len(scans) :
       /\ Waiting(k)
       /\ \A l \in 1..Len(scans) : Waiting(l) => scans[k].wake <= scans[l].wake
       /\ now' = scans[k].wake
  /\ UNCHANGED <<scanpc, scans, allFolders, callStarts, remote, uuidCount>>
  /\ ScanUnchangedResolver
  /\ UNCHANGED xvars

\* every populateFolders has resolved: return googleDriveFolders (line 268)
ScanReturn ==
  /\ scanpc = "scanning"
  /\ \A k \in 1..Len(scans) : scans[k].at = "done"
  /\ scanpc' = "returned"
  /\ UNCHANGED <<now, scans, allFolders, callStarts, remote, uuidCount>>
  /\ ScanUnchangedResolver
  /\ UNCHANGED xvars

NextScan ==
  \/ ScanBegin
  \/ \E i \in 1..Len(scans) : CallStart(i)
  \/ \E i \in 1..Len(scans) : CallReturns(i)
  \/ \E i \in 1..Len(scans) : CallFails(i)
  \/ \E i \in 1..Len(scans) : BackoffDone(i)
  \/ Tick
  \/ ScanReturn

SpecScan == ScanInit /\ [][NextScan]_vars

\* ---- C11: any two remote calls issued through the executor within a run
\* start at least RATE_LIMIT_DELAY ms apart, the calls of sibling folders
\* descended in parallel included
C11_CallsSpaced ==
  \A i, j \in 1..Len(callStarts) :
    i < j => callStarts[j].time - callStarts[i].time >= RATE_LIMIT_DELAY


\* ============================================================ the listings
\* The three drain loops: fetchFoldersForParent (lines 175-224, "children"),
\* getModifiedFolders under the executeWithRetry of getFoldersIncremental
\* (lines 398-400 and 631-658, "modified") and fetchDriveIds (lines 275-303,
\* "drives").  The entities of a listing are numbered 1..N in listing order
\* and a continuation token is the number of the page it stands for.

Listings == {"children", "modified", "drives"}

PageSplits == UNION {[1..k -> 0..MaxPageSize] : k \in 1..MaxPages}

RECURSIVE EntitiesBefore(_, _)
EntitiesBefore(sizes, k) ==
  IF k <= 1 THEN 0 ELSE sizes[k - 1] + EntitiesBefore(sizes, k - 1)

\* response.data.files (response.data.drives) of page k
files(sizes, k) == [i \in 1..sizes[k] |-> EntitiesBefore(sizes, k) + i]

\* response.data.nextPageToken ?? null
nextPageToken(sizes, k) == IF k < Len(sizes) THEN k + 1 ELSE 0

\* the page a request with this pageToken asks for
PageAsked(token) == IF token = 0 THEN 1 ELSE token

\* a loop body that leaves the loop at an empty page
afterPageStopsOnEmpty(acc, page, token) ==
  [folders |-> acc \o page,
   pageToken |-> IF Len(page) > 0 THEN token ELSE 0]

\* the loop body after the response (lines 206-210, 650-654, 286-291)
afterPage(acc, page, token) ==
  [folders |-> IF Len(page) > 0 THEN acc \o page ELSE acc,
   pageToken |-> token]

\* a getModifiedFolders that starts over from the first page with the list
\* of the failed attempt
operationStartsKeepsList(l, acc, token) ==
  IF l = "modified" THEN [folders |-> acc, pageToken |-> 0]
  ELSE [folders |-> acc, pageToken |-> token]

\* operation() is invoked by executeWithRetry (line 674): getModifiedFolders
\* starts from its first page with its own empty list (lines 635-636); the
\* drive.files.list of fetchFoldersForParent asks for the page of the
\* loop's pageToken (lines 189-204)
operationStarts(l, acc, token) ==
  IF l = "modified" THEN [folders |-> <<>>, pageToken |-> 0]
  ELSE [folders |-> acc, pageToken |-> token]

\* rootDrive.data.id, which fetchDriveIds adds last (line 300)
RootDrive == 0

Event(ev, ms, page, quota) ==
  [ev |-> ev, ms |-> ms, page |-> page, quota |-> quota]

DrainUnchangedOthers == UNCHANGED <<rvars, xvars, svars, yvars, pvars, uvars>>

\* the loop is entered: the first iteration of fetchFoldersForParent and
\* getFoldersIncremental call executeWithRetry, fetchDriveIds calls the client
DrainInit ==
  /\ ResolverIdle
  /\ ExecutorIdle
  /\ UnitsIdle
  /\ ScanIdle
  /\ SyncIdle
  /\ PermIdle
  /\ listing \in Listings
  /\ pageSizes \in PageSplits
  /\ pageToken = 0
  /\ collected = <<>>
  /\ dpc = IF listing = "drives" THEN "request" ELSE "spacing"
  /\ dRetry = 0
  /\ events = <<>>

\* await this.delay(RATE_LIMIT_DELAY), then operation() is invoked: for
\* "modified" it is getModifiedFolders, which starts from its first page with
\* an empty list (lines 635-636)
DrainSpacing ==
  /\ dpc = "spacing"
  /\ events' = Append(events, Event("delay", RATE_LIMIT_DELAY, 0, FALSE))
  /\ dpc' = "request"
  /\ pageToken' = operationStarts(listing, collected, pageToken).pageToken
  /\ collected' = operationStarts(listing, collected, pageToken).folders
  /\ UNCHANGED <<listing, pageSizes, dRetry>>
  /\ DrainUnchangedOthers

\* drive.files.list / drive.drives.list answers with a page
PageArrives ==
  /\ dpc = "request"
  /\ \E k \in {PageAsked(pageToken)} :
     \E a \in {afterPage(collected, files(pageSizes, k),
                         nextPageToken(pageSizes, k))} :
       /\ events' = Append(events, Event("request", 0, k, FALSE))
       /\ collected' = a.folders
       /\ pageToken' = a.pageToken
       /\ dpc' = IF a.pageToken # 0
                 THEN (IF listing = "children" THEN "spacing" ELSE "request")
                 ELSE (IF listing = "drives" THEN "rootGet" ELSE "returned")
       /\ dRetry' = IF listing = "children" THEN 0 ELSE dRetry
  /\ UNCHANGED <<listing, pageSizes>>
  /\ DrainUnchangedOthers

\* the request of a page rejects: inside executeWithRetry the catch of lines
\* 675-688 decides; fetchDriveIds has no handler and rejects
PageFails ==
  /\ dpc = "request"
  /\ \E error \in ScanErrors :
       /\ events' = events \o
            <<Event("request", 0, PageAsked(pageToken), FALSE),
              Event("fail", 0, PageAsked(pageToken), isRateLimitError(error))>>
       /\ dpc' = IF listing = "drives" THEN "thrown"
                 ELSE onFailure(error, dRetry).pc
  /\ UNCHANGED <<listing, pageSizes, pageToken, collected, dRetry>>
  /\ DrainUnchangedOthers

\* await this.delay(backoffTime); executeWithRetry(operation, retryCount + 1)
DrainBackoff ==
  /\ dpc = "backoff"
  /\ events' = Append(events, Event("delay", backoffTime(dRetry), 0, FALSE))
  /\ dRetry' = dRetry + 1
  /\ dpc' = "spacing"
  /\ UNCHANGED <<listing, pageSizes, pageToken, collected>>
  /\ DrainUnchangedOthers

\* drive.files.get({fileId: 'root'}) of fetchDriveIds, lines 296-300
RootGet ==
  /\ dpc = "rootGet"
  /\ \/ /\ collected' = Append(collected, RootDrive)
        /\ dpc' = "returned"
     \/ /\ dpc' = "thrown"
        /\ UNCHANGED collected
  /\ UNCHANGED <<listing, pageSizes, pageToken, dRetry, events>>
  /\ DrainUnchangedOthers

NextDrain ==
  \/ DrainSpacing
  \/ PageArrives
  \/ PageFails
  \/ DrainBackoff
  \/ RootGet

SpecDrain == DrainInit /\ [][NextDrain]_vars


\* ================================================================ the runs
\* sync (lines 103-156), run after run for one linked user.  The folders it
\* returns are persisted by its caller, one record at a time; a run that
\* fails leaves what was persisted before the failure.

Times == 1..MaxTime

Drives == UNION {[S -> Times] : S \in SUBSET FolderIds}

MaxOf(S) == CHOOSE x \in S : \A y \in S : y <= x

\* lines 660-666: the remote_modified_at of the newest persisted folder
getLastSyncTime(table) ==
  IF DOMAIN table = {} THEN NoTime
  ELSE MaxOf({table[f] : f \in DOMAIN table})

\* a run that never takes the incremental branch
selectModeFullOnly(t) == "full"

\* the conditional of lines 130-139 (a Date is truthy, null is not)
selectMode(t) == IF t # NoTime THEN "incremental" ELSE "full"

\* the folders a fetch returns: every folder of the drive (lines 259-268), or
\* those with modifiedTime >= lastSyncTime (line 637)
fetched(md, d, t) ==
  IF md = "incremental" THEN {f \in DOMAIN d : d[f] >= t} ELSE DOMAIN d

SyncUnchangedOthers == UNCHANGED <<rvars, xvars, svars, dvars, pvars, uvars>>

\* sync that goes on to the permissions after a fetch that threw
afterFetchSwallowsError(thrown) == "permissions"

\* sync after the fetch of lines 130-139 settled: its error goes to the
\* catch of lines 151-155 and is rethrown, its folders go to
\* ingestPermissionsForFolders (line 143)
afterFetch(thrown) == IF thrown THEN "failed" ELSE "permissions"

RunEnds(outcome, last) ==
  /\ steps' = Append(steps, last)
  /\ runs' = Append(runs, [watermark |-> lastSyncTime, mode |-> mode,
                           outcome |-> outcome,
                           steps |-> Append(steps, last)])
  /\ syncpc' = "idle"

SyncInit ==
  /\ ResolverIdle
  /\ ExecutorIdle
  /\ UnitsIdle
  /\ ScanIdle
  /\ DrainIdle
  /\ PermIdle
  /\ connection \in BOOLEAN
  /\ drive \in Drives
  /\ fs_folders = EmptyMap
  /\ syncpc = "idle"
  /\ mode = {}
  /\ lastSyncTime = NoTime
  /\ syncFolders = <<>>
  /\ committed = 0
  /\ runs = <<>>
  /\ steps = <<>>

\* lines 107-121: no connection, the run returns statusCode 404
NoConnection ==
  /\ syncpc = "idle"
  /\ Len(runs) < MaxRuns
  /\ ~connection
  /\ mode' = {}
  /\ lastSyncTime' = NoTime
  /\ syncFolders' = <<>>
  /\ committed' = 0
  /\ steps' = <<>>
  /\ runs' = Append(runs, [watermark |-> NoTime, mode |-> {},
                           outcome |-> "404", steps |-> <<>>])
  /\ UNCHANGED <<connection, drive, fs_folders, syncpc>>
  /\ SyncUnchangedOthers

\* lines 107-139: the watermark is read and the fetch of one mode is called
SyncBegin ==
  /\ syncpc = "idle"
  /\ Len(runs) < MaxRuns
  /\ connection
  /\ \E t \in {getLastSyncTime(fs_folders)} :
       /\ lastSyncTime' = t
       /\ mode' = {selectMode(t)}
  /\ syncFolders' = <<>>
  /\ committed' = 0
  /\ syncpc' = "fetching"
  /\ steps' = <<"fetch">>
  /\ UNCHANGED <<connection, drive, fs_folders, runs>>
  /\ SyncUnchangedOthers

\* the fetch returns, parents resolved (lines 259-268, 402-407).  The order
\* of the batch does not follow modifiedTime: the full scan lists level by
\* level and processFoldersWithParents emits a folder only once its parent is
\* known
FetchReturns ==
  /\ syncpc = "fetching"
  /\ \E md \in mode :
       syncFolders' \in Orderings(fetched(md, drive, lastSyncTime))
  /\ syncpc' = afterFetch(FALSE)
  /\ steps' = steps \o <<"fetched", afterFetch(FALSE)>>
  /\ UNCHANGED <<connection, drive, fs_folders, mode, lastSyncTime, committed,
                 runs>>
  /\ SyncUnchangedOthers

\* the fetch throws (lines 267-270, 408-411): catch, log, rethrow (151-155)
FetchFails ==
  /\ syncpc = "fetching"
  /\ IF afterFetch(TRUE) = "failed"
     THEN RunEnds("failed", "fetch failed")
     ELSE /\ syncpc' = afterFetch(TRUE)
          /\ steps' = steps \o <<"fetch failed", afterFetch(TRUE)>>
          /\ UNCHANGED runs
  /\ UNCHANGED <<connection, drive, fs_folders, mode, lastSyncTime,
                 syncFolders, committed>>
  /\ SyncUnchangedOthers

\* ingestPermissionsForFolders returns; sync returns the folders (141-150)
PermissionsIngested ==
  /\ syncpc = "permissions"
  /\ syncpc' = "committing"
  /\ steps' = Append(steps, "ingested")
  /\ UNCHANGED <<connection, drive, fs_folders, mode, lastSyncTime,
                 syncFolders, committed, runs>>
  /\ SyncUnchangedOthers

\* ingestPermissionsForFolders throws (lines 378-381, 151-155)
PermissionsFail ==
  /\ syncpc = "permissions"
  /\ RunEnds("failed", "permissions failed")
  /\ UNCHANGED <<connection, drive, fs_folders, mode, lastSyncTime,
                 syncFolders, committed>>
  /\ SyncUnchangedOthers

\* the caller persists the next record of the batch
CommitRecord ==
  /\ syncpc = "committing"
  /\ committed < Len(syncFolders)
  /\ \E f \in {syncFolders[committed + 1]} :
       fs_folders' = Put(fs_folders, f, drive[f])
  /\ committed' = committed + 1
  /\ UNCHANGED <<connection, drive, syncpc, mode, lastSyncTime, syncFolders,
                 runs, steps>>
  /\ SyncUnchangedOthers

\* persisting fails before the whole batch is in
CommitFails ==
  /\ syncpc = "committing"
  /\ committed < Len(syncFolders)
  /\ RunEnds("failed", "commit failed")
  /\ UNCHANGED <<connection, drive, fs_folders, mode, lastSyncTime,
                 syncFolders, committed>>
  /\ SyncUnchangedOthers

\* the whole batch is persisted
RunCompletes ==
  /\ syncpc = "committing"
  /\ committed = Len(syncFolders)
  /\ RunEnds("ok", "committed")
  /\ UNCHANGED <<connection, drive, fs_folders, mode, lastSyncTime,
                 syncFolders, committed>>
  /\ SyncUnchangedOthers

NextSync ==
  \/ NoConnection
  \/ SyncBegin
  \/ FetchReturns
  \/ FetchFails
  \/ PermissionsIngested
  \/ PermissionsFail
  \/ CommitRecord
  \/ CommitFails
  \/ RunCompletes

SpecSync == SyncInit /\ [][NextSync]_vars


\* ========================================================= the permissions
\* ingestPermissionsForFolders (lines 308-382).  A permission embedded in a
\* folder is [id, role]; an absent permissions field behaves as an empty
\* list (folder.permissions?.length).  ingestData is the ingestion service:
\* it answers with the records of the permissions it ingested.

PermIds == {"p1", "p2"}

Roles == {"reader", "writer"}

PermLists ==
  UNION {[1..n -> [id : PermIds, role : Roles]] : n \in 0..MaxPermissions}

PermBatches ==
  {[i \in 1..Len(b) |-> [id |-> FolderNames[i], permissions |-> b[i]]] :
     b \in UNION {[1..n -> PermLists] : n \in 0..MaxPermFolders}}

\* lines 319-326: the permissions of all folders, in batch order
RECURSIVE allPermissionsOf(_, _)
allPermissionsOf(fs, i) ==
  IF i > Len(fs) THEN <<>>
  ELSE fs[i].permissions \o allPermissionsOf(fs, i + 1)

\* the keys of new Map(all.map(p => [p.id, p])), in insertion order
RECURSIVE KeysFrom(_, _)
KeysFrom(all, i) ==
  IF i > Len(all) THEN <<>>
  ELSE (IF \E j \in 1..(i - 1) : all[j].id = all[i].id
        THEN <<>> ELSE <<all[i].id>>) \o KeysFrom(all, i + 1)

\* a Map that keeps the first value set for a key
FirstWith(all, key) ==
  all[CHOOSE i \in 1..Len(all) :
        all[i].id = key /\ \A j \in 1..(i - 1) : all[j].id # key]

\* the value the Map holds for a key: the last one set
LastWith(all, key) ==
  all[CHOOSE i \in 1..Len(all) :
        all[i].id = key /\ \A j \in (i + 1)..Len(all) : all[j].id # key]

\* the list passed on without removing duplicates
uniquePermissionsNoDedup(all) == all

\* lines 334-338
uniquePermissions(all) ==
  [k \in 1..Len(KeysFrom(all, 1)) |-> LastWith(all, KeysFrom(all, 1)[k])]

\* an extraction that goes on to ingestion with an empty list
extractAlwaysIngests(fs) ==
  [ingest |-> TRUE, unique |-> uniquePermissions(allPermissionsOf(fs, 1))]

\* lines 312-338: the two early returns, else the list to ingest
extract(fs) ==
  IF Len(fs) = 0 THEN [ingest |-> FALSE, unique |-> <<>>]
  ELSE IF Len(allPermissionsOf(fs, 1)) = 0
       THEN [ingest |-> FALSE, unique |-> <<>>]
       ELSE [ingest |-> TRUE,
             unique |-> uniquePermissions(allPermissionsOf(fs, 1))]

\* the id_fs_permission the store holds for a remote permission id
PermissionRecord(permission) ==
  [remote_id |-> permission.id, id_fs_permission |-> "fs-" \o permission.id]

\* what ingestData can answer for a list: the records of those it ingested
RECURSIVE Ingested(_, _, _)
Ingested(unique, S, i) ==
  IF i > Len(unique) THEN <<>>
  ELSE (IF i \in S THEN <<PermissionRecord(unique[i])>> ELSE <<>>)
       \o Ingested(unique, S, i + 1)

IngestAnswers(unique) ==
  {Ingested(unique, S, 1) : S \in SUBSET (1..Len(unique))}

\* lines 356-361: remote_id -> id_fs_permission, the last record set wins
permissionIdMap(synced) ==
  [k \in {synced[i].remote_id : i \in 1..Len(synced)} |->
     synced[CHOOSE i \in 1..Len(synced) :
              synced[i].remote_id = k
              /\ \A j \in (i + 1)..Len(synced) : synced[j].remote_id # k]
       .id_fs_permission]

\* map without the filter: a missing id stays in the list as undefined
mapThenFilterKeepsUndefined(perms, idMap) ==
  [k \in 1..Len(perms) |->
     IF Has(idMap, perms[k].id) THEN idMap[perms[k].id] ELSE "undefined"]

\* lines 366-371: map(get) then filter(!== undefined)
RECURSIVE mapThenFilter(_, _)
mapThenFilter(perms, idMap) ==
  IF Len(perms) = 0 THEN <<>>
  ELSE (IF Has(idMap, Head(perms).id) THEN <<idMap[Head(perms).id]>>
        ELSE <<>>) \o mapThenFilter(Tail(perms), idMap)

\* lines 364-373: folders.forEach
rewritten(fs, idMap) ==
  [i \in 1..Len(fs) |->
     IF Len(fs[i].permissions) > 0
     THEN [fs[i] EXCEPT !.permissions = mapThenFilter(@, idMap)]
     ELSE fs[i]]

PermUnchangedOthers == UNCHANGED <<rvars, xvars, svars, dvars, yvars, uvars>>

PermInit ==
  /\ ResolverIdle
  /\ ExecutorIdle
  /\ UnitsIdle
  /\ ScanIdle
  /\ DrainIdle
  /\ SyncIdle
  /\ pinput \in PermBatches
  /\ pfolders = pinput
  /\ ppc = "called"
  /\ ingestCalls = <<>>
  /\ ingestResult = NoIngest

\* lines 312-351: up to the await of ingestData
PermExtract ==
  /\ ppc = "called"
  /\ \E e \in {extract(pfolders)} :
       IF e.ingest
       THEN /\ ingestCalls' = Append(ingestCalls, e.unique)
            /\ ppc' = "ingesting"
       ELSE /\ ppc' = "returned"
            /\ UNCHANGED ingestCalls
  /\ UNCHANGED <<pinput, pfolders, ingestResult>>
  /\ PermUnchangedOthers

\* ingestData answers: lines 356-377 rewrite the folders and return them
IngestReturns ==
  /\ ppc = "ingesting"
  /\ \E synced \in IngestAnswers(ingestCalls[Len(ingestCalls)]) :
       /\ ingestResult' = [kind |-> "returned", value |-> synced]
       /\ pfolders' = rewritten(pfolders, permissionIdMap(synced))
  /\ ppc' = "returned"
  /\ UNCHANGED <<pinput, ingestCalls>>
  /\ PermUnchangedOthers

\* ingestData throws: lines 378-381 log and rethrow
IngestThrows ==
  /\ ppc = "ingesting"
  /\ ingestResult' = [kind |-> "threw", value |-> <<>>]
  /\ ppc' = "thrown"
  /\ UNCHANGED <<pinput, pfolders, ingestCalls>>
  /\ PermUnchangedOthers

NextPerm ==
  \/ PermExtract
  \/ IngestReturns
  \/ IngestThrows

SpecPerm == PermInit /\ [][NextPerm]_vars


\* ================================================================== claims

OutIndex == 1..Len(foldersToSync)
OutIds == {foldersToSync[i].id : i \in OutIndex}
BatchIds == {folders[i].id : i \in 1..Len(folders)}

\* the remote parent references of the batch, as a parent function
BatchParent ==
  [f \in BatchIds |->
     ParentRef(folders[CHOOSE i \in 1..Len(folders) : folders[i].id = f])]

\* the entities met by following the batch's parent references from f
CycleOf(f) == {Up(BatchParent, f, n) : n \in 1..Len(folders)}

\* f lies on a cycle of the batch none of whose entities is persisted
OnFreshCycle(f) ==
  /\ OnCycle(BatchParent, f)
  /\ CycleOf(f) \cap DOMAIN store = {}

\* the stored parent links: internal id -> internal parent id
StoredParent(st) ==
  [u \in {st[f].id : f \in DOMAIN st} |->
     st[CHOOSE f \in DOMAIN st : st[f].id = u].parent]

StoredIds == {store[f].id : f \in DOMAIN store}

\* C1: after a sync run whose output was upserted into the store, following
\* the stored parent links from any stored entity never leads back to it.
C1_StoreIsForest ==
  \A f \in DOMAIN store : ~OnCycle(StoredParent(store), store[f].id)

\* C2: every entity returned by resolution has a parent field that is null
\* or the internal id of an entity of the same output or of the store.
C2_ParentIsNullOrKnown ==
  pc = "resolved" =>
    \A i \in OutIndex :
      \/ foldersToSync[i].internal_parent_folder_id = Null
      \/ \E j \in OutIndex :
           foldersToSync[j].internal_id =
             foldersToSync[i].internal_parent_folder_id
      \/ foldersToSync[i].internal_parent_folder_id \in StoredIds

\* C3: an entity of the batch that is already persisted is output with its
\* persisted internal id, in a normal pass and in fallback alike.
C3_PersistedIdKept ==
  pc = "resolved" =>
    \A i \in OutIndex :
      Has(store, foldersToSync[i].id) =>
        foldersToSync[i].internal_id = store[foldersToSync[i].id].id

\* C4: every resolve call terminates, whatever cycles the batch's parent
\* references form and however the parallel walks interleave.
C4_ResolveTerminates == (pc = "passes") ~> (pc = "resolved")

C4_Witness ==
  /\ pc = "resolved"
  /\ Len(folders) = NumFolders
  /\ \A f \in BatchIds : OnCycle(BatchParent, f) /\ CycleOf(f) = BatchIds
  /\ \A i \in 1..Len(walks) : walks[i].cause \notin FetchFailures

CycleWalkFailed(f) ==
  \E i \in 1..Len(walks) :
    walks[i].start.id \in CycleOf(f) /\ walks[i].cause \in FetchFailures

C6_GraphIntegrityRecovered ==
  pc = "resolved" =>
    /\ \A i \in 1..Len(walks) :
         walks[i].cause \in {"cycle"} \cup FetchFailures =>
           \E j \in OutIndex :
             /\ foldersToSync[j].id = walks[i].start.id
             /\ foldersToSync[j].internal_parent_folder_id = Null
    /\ BatchIds \subseteq OutIds

C6_Witness ==
  /\ pc = "resolved"
  /\ \E i \in 1..Len(walks) : walks[i].cause = "cycle"
  /\ \E i \in 1..Len(walks) : walks[i].cause \in FetchFailures
  /\ Len(foldersToSync) > Len(walks)

\* ---- claims about executeWithRetry
RECURSIVE SumSeq(_)
SumSeq(q) == IF q = <<>> THEN 0 ELSE Head(q) + SumSeq(Tail(q))

QuotaFailure(a) == ~a.ok /\ isRateLimitError(a.error)

FailsTwiceThenSucceeds ==
  /\ Len(attempts) >= 3
  /\ QuotaFailure(attempts[1])
  /\ QuotaFailure(attempts[2])
  /\ attempts[3].ok

\* C7: quota failures on attempts 1 and 2 and a success on attempt 3 make
\* the call return that success after exactly 3 attempts, having waited at
\* least base + 2 * base.
C7_RetryThenSuccess ==
  FailsTwiceThenSucceeds =>
    /\ xpc = "returned"
    /\ xresult = [kind |-> "returned", value |-> Response, error |-> NoError]
    /\ Len(attempts) = 3
    /\ SumSeq(delays) >= BASE_BACKOFF_MS + 2 * BASE_BACKOFF_MS

C7_Witness == FailsTwiceThenSucceeds /\ xpc = "returned"

AlwaysQuota == \A i \in 1..Len(attempts) : QuotaFailure(attempts[i])

\* C8: an operation that always fails with a quota error is attempted
\* exactly MAX_API_RETRIES + 1 times, then a terminal error embedding the
\* last error's message is raised; no call makes more attempts than that.
C8_RetryExhaustion ==
  /\ Len(attempts) <= MAX_API_RETRIES + 1
  /\ (AlwaysQuota /\ Len(attempts) = MAX_API_RETRIES + 1) =>
       /\ xpc = "thrown"
       /\ xresult.kind = "thrown"
       /\ xresult.error # attempts[Len(attempts)].error
       /\ includes(xresult.error.message,
                   MessageText(attempts[Len(attempts)].error))
  /\ (AlwaysQuota /\ xpc = "thrown") => Len(attempts) = MAX_API_RETRIES + 1

C8_Witness ==
  /\ AlwaysQuota
  /\ Len(attempts) = MAX_API_RETRIES + 1
  /\ xpc = "thrown"

\* C9: an attempt failing with an error that is not a rate-limit error is
\* the last attempt, and the call raises that very error.
C9_OtherErrorPropagates ==
  \A i \in 1..Len(attempts) :
    (~attempts[i].ok /\ ~isRateLimitError(attempts[i].error)) =>
      /\ i = Len(attempts)
      /\ xpc = "thrown"
      /\ xresult = [kind |-> "thrown", value |-> Null,
                    error |-> attempts[i].error]

C9_Witness ==
  /\ Len(attempts) = 3
  /\ QuotaFailure(attempts[1])
  /\ QuotaFailure(attempts[2])
  /\ ~attempts[3].ok
  /\ ~isRateLimitError(attempts[3].error)
  /\ xpc = "thrown"

\* what the call did with the failure of its last attempt: it backed off or
\* gave up with the terminal error (quota), or re-raised the error (other)
LastError == attempts[Len(attempts)].error
TreatedAsQuota ==
  \/ xpc = "backoff"
  \/ xpc = "thrown" /\ xresult.error # LastError

Carries429(e) == "code" \in e.fields /\ e.code = 429
MessageHasQuota(e) ==
  "message" \in e.fields /\ e.message # Null /\ includes(e.message, "quota")

\* C10 as claimed: a failure is treated as quota exactly when it carries
\* code 429 or its message contains the quota keyword.
C10_QuotaIff429OrKeyword ==
  xpc \in {"backoff", "thrown"} =>
    (TreatedAsQuota <=> (Carries429(LastError) \/ MessageHasQuota(LastError)))

\* C10 amended: a failure is treated as quota exactly when it is an object
\* that has both a code and a message property and whose code is 429 or
\* whose message is a string containing the quota keyword.
C10_QuotaIffShaped ==
  xpc \in {"backoff", "thrown"} =>
    (TreatedAsQuota <=>
       /\ LastError.type = "object"
       /\ {"code", "message"} \subseteq LastError.fields
       /\ (Carries429(LastError) \/ MessageHasQuota(LastError)))

\* a failure retried for its message alone
C10_Witness ==
  /\ xpc = "backoff"
  /\ ~Carries429(LastError)
  /\ MessageHasQuota(LastError)

\* ---- claims about the listings
IsRequest(i) == events[i].ev = "request"

\* the pages whose request was answered, in order
RECURSIVE ServedFrom(_)
ServedFrom(i) ==
  IF i > Len(events) THEN <<>>
  ELSE IF IsRequest(i) /\ ~(i < Len(events) /\ events[i + 1].ev = "fail")
       THEN <<events[i].page>> \o ServedFrom(i + 1)
       ELSE ServedFrom(i + 1)

Served == ServedFrom(1)

QuotaFailures == {i \in 1..Len(events) : events[i].ev = "fail" /\ events[i].quota}

\* ---- C12: every page request of every listing is issued through the
\* executor: the spacing delay precedes it, a page that fails on quota is the
\* page asked for next, and the listing gives up on quota failures only
\* after the retry ceiling
C12_PagesThroughExecutor ==
  /\ \A i \in 1..Len(events) :
       IsRequest(i) =>
         /\ i > 1
         /\ events[i - 1] = Event("delay", RATE_LIMIT_DELAY, 0, FALSE)
  /\ \A i \in QuotaFailures : \A j \in (i + 1)..Len(events) :
       (IsRequest(j) /\ \A l \in (i + 1)..(j - 1) : ~IsRequest(l))
         => events[j].page = events[i].page
  /\ (dpc = "thrown" /\ Len(events) \in QuotaFailures)
       => Cardinality(QuotaFailures) > MAX_API_RETRIES

\* the entities of the whole remote listing, in order
AllEntities ==
  [i \in 1..EntitiesBefore(pageSizes, Len(pageSizes) + 1) |-> i]

\* ---- C13: the drain loop of the per-container listing and of the
\* modified-since listing returns exactly the N entities of the K pages,
\* each once, whatever the page sizes; it asks for the pages in order, never
\* for a page after the one that carried no token, and returns only after
\* that one
C13_DrainComplete ==
  listing \in {"children", "modified"} =>
    /\ \A i \in 1..(Len(Served) - 1) :
         \/ Served[i + 1] = Served[i] + 1
         \/ /\ listing = "modified"
            /\ Served[i] < Len(pageSizes)
            /\ Served[i + 1] = 1
    /\ dpc = "returned" =>
         /\ collected = AllEntities
         /\ Served # <<>>
         /\ Served[Len(Served)] = Len(pageSizes)
         /\ listing = "children" => Len(Served) = Len(pageSizes)

C13_Witness ==
  /\ dpc = "returned"
  /\ listing = "modified"
  /\ pageSizes = <<2, 0, 1>>
  /\ \E i \in QuotaFailures : events[i].page = 3

\* ---- claims about the runs
InRun == syncpc \in {"fetching", "permissions", "committing"}

\* ---- C14: a run fetches in full-scan mode exactly when getLastSyncTime
\* found no watermark and in incremental mode exactly when it found one, and
\* it enters one mode only
C14_ModeFollowsWatermark ==
  InRun =>
    /\ Cardinality(mode) = 1
    /\ "full" \in mode <=> lastSyncTime = NoTime
    /\ "incremental" \in mode <=> lastSyncTime # NoTime

C14_Witness ==
  /\ syncpc = "permissions"
  /\ mode = {"incremental"}
  /\ Len(runs) = 1
  /\ runs[1].mode = {"full"}
  /\ runs[1].outcome = "ok"

PreviousRunFailed ==
  /\ Len(runs) > 0
  /\ runs[Len(runs)].outcome = "failed"

\* ---- C15: after a run that failed before its whole batch was persisted,
\* the next run reads the watermark the failed run started from, and lists
\* every remote folder modified since that watermark
C15_FailedRunKeepsWatermark ==
  (InRun /\ PreviousRunFailed) =>
    /\ lastSyncTime = runs[Len(runs)].watermark
    /\ syncpc = "permissions" =>
         \A f \in DOMAIN drive :
           (drive[f] >= runs[Len(runs)].watermark)
             => \E k \in 1..Len(syncFolders) : syncFolders[k] = f

\* ---- claims about failures inside the ancestor walks
WalkEndedBy(cause) == \E i \in 1..Len(walks) : walks[i].cause = cause

ResolveSucceeded == pc \in {"resolved", "saved"}

\* ---- C16: when an executor call of an ancestor walk exhausts its retry
\* ceiling, the run fails: the resolve call does not return a result
C16_ExhaustionFailsRun == WalkEndedBy("exhausted") => ~ResolveSucceeded

\* ---- C17: a failure of a remote call of an ancestor walk that is not a
\* quota failure is propagated out of the run: the resolve call does not
\* return a result
C17_OtherFailurePropagates == WalkEndedBy("other") => ~ResolveSucceeded

\* ---- claims about the permissions
Embeds(i, p) ==
  \E k \in 1..Len(pinput[i].permissions) : pinput[i].permissions[k].id = p

Sharers(p) == {i \in 1..Len(pinput) : Embeds(i, p)}

SharedIds == {p \in PermIds : Cardinality(Sharers(p)) >= 2}

\* the places of the arguments of ingestData at which p was passed
Passed(p) ==
  {ck \in (1..Len(ingestCalls)) \X (1..(MaxPermFolders * MaxPermissions)) :
     /\ ck[2] <= Len(ingestCalls[ck[1]])
     /\ ingestCalls[ck[1]][ck[2]].id = p}

Synced == ingestResult.value

ReturnedIds == {Synced[k].remote_id : k \in 1..Len(Synced)}

IdGivenTo(p) ==
  Synced[CHOOSE k \in 1..Len(Synced) : Synced[k].remote_id = p].id_fs_permission

Refs(i) ==
  {pfolders[i].permissions[k] : k \in 1..Len(pfolders[i].permissions)}

\* ---- C18: a permission embedded by several folders of the batch is passed
\* to ingestion exactly once, in the only ingestData call of the run, and
\* once ingestion has returned it every one of those folders references the
\* one internal id it was given
C18_SharedIngestedOnce ==
  \A p \in SharedIds :
    /\ Len(ingestCalls) <= 1
    /\ ppc # "called" => Cardinality(Passed(p)) = 1
    /\ (ppc = "returned" /\ p \in ReturnedIds) =>
         \A i \in Sharers(p) : IdGivenTo(p) \in Refs(i)

C18_Witness ==
  /\ ppc = "returned"
  /\ Len(pinput) = 2
  /\ pinput[1].permissions = <<[id |-> "p1", role |-> "reader"]>>
  /\ pinput[2].permissions =
       <<[id |-> "p2", role |-> "reader"], [id |-> "p1", role |-> "writer"]>>
  /\ pfolders[1].permissions = <<"fs-p1">>
  /\ pfolders[2].permissions = <<"fs-p2", "fs-p1">>

\* the embedded permissions that ingestion returned, in their order
Kept(perms) == SelectSeq(perms, LAMBDA q : q.id \in ReturnedIds)

Expected(perms) == [k \in 1..Len(Kept(perms)) |-> IdGivenTo(Kept(perms)[k].id)]

\* ---- C19: once ingestion has answered, every folder's permissions list
\* holds, in the original order, exactly the internal ids of its embedded
\* permissions that ingestion returned; the others are dropped and the call
\* returns without an error
C19_MissingDropped ==
  ingestResult.kind = "returned" =>
    /\ ppc = "returned"
    /\ \A i \in 1..Len(pinput) :
         pfolders[i].permissions = Expected(pinput[i].permissions)

C19_Witness ==
  /\ ingestResult.kind = "returned"
  /\ Len(pinput) = 2
  /\ Len(pinput[1].permissions) = 2
  /\ pinput[1].permissions[1].id \notin ReturnedIds
  /\ pinput[1].permissions[2].id \in ReturnedIds
  /\ Len(pfolders[1].permissions) = 1

NoSubEntities == \A i \in 1..Len(pinput) : Len(pinput[i].permissions) = 0

\* ---- C20: when no folder of the batch embeds a permission, or the batch is
\* empty, the call returns its input unchanged and never calls ingestData
C20_NothingToIngest ==
  NoSubEntities =>
    /\ ingestCalls = <<>>
    /\ ppc \in {"called", "returned"}
    /\ pfolders = pinput

C20_Witness ==
  /\ NoSubEntities
  /\ Len(pinput) = 2
  /\ ppc = "returned"

\* ---- claims about the unique set
AllEmbedded == allPermissionsOf(pinput, 1)

OccurrencesOf(p) == {i \in 1..Len(AllEmbedded) : AllEmbedded[i].id = p}

\* ---- C21: for every remote permission id the list passed to ingestion
\* holds the content of the last occurrence of that id in batch order
C21_LastContentWins ==
  \A c \in 1..Len(ingestCalls) : \A k \in 1..Len(ingestCalls[c]) :
    \E i \in OccurrencesOf(ingestCalls[c][k].id) :
      /\ \A j \in OccurrencesOf(ingestCalls[c][k].id) : j <= i
      /\ ingestCalls[c][k] = AllEmbedded[i]

C21_Witness ==
  /\ Len(pinput) = 2
  /\ pinput[1].permissions = <<[id |-> "p1", role |-> "reader"]>>
  /\ pinput[2].permissions = <<[id |-> "p1", role |-> "writer"]>>
  /\ ingestCalls = <<(<<[id |-> "p1", role |-> "writer"]>>)>>

\* ---- claims about root parents
UnderRoot(folder) == ParentRef(folder) \in DriveIds \cup {"root"}

RECURSIVE Grounded(_, _)
Grounded(f, n) ==
  \/ BatchParent[f] \in DriveIds \cup {"root"}
  \/ Has(store, BatchParent[f])
  \/ /\ n > 0
     /\ BatchParent[f] \in BatchIds
     /\ Grounded(BatchParent[f], n - 1)

AllGrounded == \A f \in BatchIds : Grounded(f, Len(folders))

OutOf(f) == foldersToSync[CHOOSE i \in OutIndex : foldersToSync[i].id = f]

\* the internal id of the remote parent of f: null for a root, the id given
\* in this run to a parent of the batch, else the persisted id
ParentInternalId(f) ==
  IF BatchParent[f] \in DriveIds \cup {"root"} THEN Null
  ELSE IF BatchParent[f] \in OutIds THEN OutOf(BatchParent[f]).internal_id
  ELSE store[BatchParent[f]].id

\* ---- C23: when every folder's chain of parents inside the batch ends at a
\* root or at a persisted folder, every order of arrival of the batch gives
\* each folder the internal id of its remote parent as parent link, without
\* fallback resolution, also when a child arrives before its parent
C23_OrderIndependent ==
  (pc = "resolved" /\ AllGrounded) =>
    /\ walks = <<>>
    /\ Len(foldersToSync) = Len(folders)
    /\ OutIds = BatchIds
    /\ \A i \in OutIndex :
         foldersToSync[i].internal_parent_folder_id
           = ParentInternalId(foldersToSync[i].id)

C23_Witness ==
  /\ pc = "resolved"
  /\ AllGrounded
  /\ Len(folders) = 3
  /\ folders[1].parents = <<folders[2].id>>
  /\ folders[2].parents = <<folders[3].id>>
  /\ folders[3].parents = <<"d1">>
  /\ store = EmptyMap
  /\ Len(passes) = 3

\* ================================= resolveParentId, one call after another
\* Lines 428-447 for one folder at a time, on every combination of the three
\* sources the call consults: the map of the run, the drive ids, the store.

\* a remote id may at once be a key of the map, a drive id and a remote_id of
\* the store
LookupIds == {"f1", "d1", "root"}

\* the folder of the batch whose parent is looked up
Askers == {[id |-> "f3", parents |-> ps] :
             ps \in {<<>>} \cup {<<k>> : k \in LookupIds \cup {"f2"}}}

\* the internal ids the run gave: distinct from every persisted id
GivenId(k) == IF k = "f1" THEN uuidv4(8) ELSE IF k = "d1" THEN uuidv4(9)
              ELSE uuidv4(10)

LookupMaps == {[k \in S |-> GivenId(k)] : S \in SUBSET LookupIds}

StoredId(k) == IF k = "f1" THEN uuidv4(1) ELSE IF k = "d1" THEN uuidv4(2)
               ELSE uuidv4(3)

LookupStores ==
  {[k \in S |-> [id |-> StoredId(k), parent |-> Null]] : S \in SUBSET LookupIds}

\* lines 430-447: the link the folder is created with, or its place in
\* foldersStillPending
afterLookup(folder, internalParentId) ==
  IF Truthy(internalParentId)
  THEN [kind |-> "resolved",
        link |-> createFolderWithInternalIds(folder, internalParentId,
                   uuidv4(4)).internal_parent_folder_id]
  ELSE [kind |-> "pending", link |-> Null]

LookupInit ==
  /\ store \in LookupStores
  /\ folderIdToInternalIdMap \in LookupMaps
  /\ parentLookupCache = EmptyMap
  /\ asked = NoFolder
  /\ answer = NoAnswer
  /\ remote = EmptyMap
  /\ pc = "off"
  /\ folders = <<>>
  /\ foldersToSync = <<>>
  /\ remainingFolders = <<>>
  /\ passes = <<>>
  /\ pending = <<>>
  /\ remote_folders = EmptyMap
  /\ walks = <<>>
  /\ circularWarnings = {}
  /\ uuidCount = 0
  /\ MapperIdle
  /\ CallbackIdle
  /\ ExecutorIdle
  /\ ScanIdle
  /\ DrainIdle
  /\ SyncIdle
  /\ PermIdle

LookupParent ==
  \E folder \in Askers :
    LET r == resolveParentId(ParentRef(folder), folderIdToInternalIdMap,
                             parentLookupCache, store)
    IN /\ asked' = folder
       /\ parentLookupCache' = r.cache
       /\ answer' = afterLookup(folder, r.result)
       /\ UNCHANGED <<store, remote, pc, folders, folderIdToInternalIdMap,
                      foldersToSync, remainingFolders, passes, pending,
                      remote_folders, walks, circularWarnings, uuidCount,
                      xvars, svars, dvars, yvars, pvars, mvars, hvars>>

NextLookup == LookupParent

SpecLookup == LookupInit /\ [][NextLookup]_vars

\* ---- C24: the parent link of a folder comes from the map of the run when
\* its remote parent is a key of the map, also when that id is a drive id or
\* persisted; else it is null when the remote parent is a drive id or root,
\* also when a folder with that remote id is persisted; else it is the id of
\* the persisted folder, and without one the folder stays pending
C24_LookupOrder ==
  answer # NoAnswer =>
    LET parentId == ParentRef(asked)
    IN IF Has(folderIdToInternalIdMap, parentId)
       THEN answer = [kind |-> "resolved",
                      link |-> folderIdToInternalIdMap[parentId]]
       ELSE IF parentId \in DriveIds \cup {"root"}
       THEN answer = [kind |-> "resolved", link |-> Null]
       ELSE IF Has(store, parentId)
       THEN answer = [kind |-> "resolved", link |-> store[parentId].id]
       ELSE answer = [kind |-> "pending", link |-> Null]

C24_Witness ==
  /\ ParentRef(asked) = "d1"
  /\ Has(folderIdToInternalIdMap, "d1")
  /\ Has(store, "d1")
  /\ answer = [kind |-> "resolved", link |-> GivenId("d1")]

\* ============================================== mapSingleStageToUnified
\* crm/stage/services/zendesk/mappers.ts, lines 48-69

MaxMappings == 2

\* JavaScript undefined: what stage[key] is for a key the record lacks
Undefined == "<undefined>"

Slugs == {"priority", "owner"}
RemoteAttributes == {"p_level", "p_owner"}
AttributeValues == {"high", "low"}

\* the remote records: id and name, and any of the remote attributes
Stages ==
  {[k \in {"id", "name"} \cup S |->
      IF k = "id" THEN n ELSE IF k = "name" THEN "Won" ELSE val[k]] :
     n \in 1..2, S \in SUBSET RemoteAttributes,
     val \in [RemoteAttributes -> AttributeValues]}

Mappings ==
  UNION {[1..n -> [slug : Slugs, remote_id : RemoteAttributes]] :
           n \in 0..MaxMappings}

\* String(stage.id), for the ids of Stages
String(n) == IF n = 1 THEN "1" ELSE "2"

\* stage[key]
Get(record, key) == IF Has(record, key) THEN record[key] ELSE Undefined

\* the loop of lines 58-60 that files each value under the remote attribute
fieldMappingsByAttribute(record, mappings, n) ==
  [k \in {mappings[i].remote_id : i \in 1..n} |-> Get(record, k)]

\* lines 56-61: field_mappings after the first n mappings
RECURSIVE fieldMappingsOf(_, _, _)
fieldMappingsOf(record, mappings, n) ==
  IF n = 0 THEN EmptyMap
  ELSE Put(fieldMappingsOf(record, mappings, n - 1),
           mappings[n].slug, Get(record, mappings[n].remote_id))

mapSingleStageToUnified(record, mappings) ==
  [remote_id |-> String(record["id"]),
   remote_data |-> record,
   stage_name |-> record["name"],
   field_mappings |->
     IF mappings.supplied
     THEN fieldMappingsOf(record, mappings.pairs, Len(mappings.pairs))
     ELSE EmptyMap]

MapperInit ==
  /\ stage \in Stages
  /\ customFieldMappings \in
       {NoMappings} \cup {[supplied |-> TRUE, pairs |-> ps] : ps \in Mappings}
  /\ unified = EmptyMap
  /\ ResolverIdle
  /\ ExecutorIdle
  /\ LookupIdle
  /\ CallbackIdle
  /\ ScanIdle
  /\ DrainIdle
  /\ SyncIdle
  /\ PermIdle

MapStage ==
  /\ unified = EmptyMap
  /\ unified' = mapSingleStageToUnified(stage, customFieldMappings)
  /\ UNCHANGED <<stage, customFieldMappings, rvars, xvars, svars, dvars,
                 yvars, pvars, qvars, hvars>>

NextMapper == MapStage

SpecMapper == MapperInit /\ [][NextMapper]_vars

\* ---- claims about the mapper
Mapped == unified # EmptyMap

Pairs == customFieldMappings.pairs

Supplied == 1..Len(Pairs)

SuppliedSlugs == {Pairs[i].slug : i \in Supplied}

Holds(i) ==
  /\ Has(unified.field_mappings, Pairs[i].slug)
  /\ unified.field_mappings[Pairs[i].slug] = Get(stage, Pairs[i].remote_id)

\* ---- C25, as stated: field_mappings holds for every supplied pair the
\* record's value of the pair's remote attribute under the pair's slug, and
\* no other key
C25_EveryPairHeld ==
  Mapped =>
    /\ \A i \in Supplied : Holds(i)
    /\ DOMAIN unified.field_mappings = SuppliedSlugs

\* ---- C25, amended: field_mappings holds under every supplied slug the
\* record's value of the remote attribute of the last pair supplied with that
\* slug, and no other key; without mappings it is empty
C25_LastPairHeld ==
  Mapped =>
    /\ \A i \in Supplied :
         (\A j \in Supplied : Pairs[j].slug = Pairs[i].slug => j <= i)
           => Holds(i)
    /\ DOMAIN unified.field_mappings = SuppliedSlugs

C25_Witness ==
  /\ Mapped
  /\ Pairs = <<[slug |-> "priority", remote_id |-> "p_level"],
               [slug |-> "priority", remote_id |-> "p_owner"]>>
  /\ Get(stage, "p_level") = "high"
  /\ Get(stage, "p_owner") = "low"
  /\ unified.field_mappings = [k \in {"priority"} |-> "low"]

\* ---- claims about the links the full scan gives
ScannedIndex == 1..Len(allFolders)

\* the folder was listed by the call for a drive (parentId null)
ListedUnderDrive(e) == e.parents[1] \in DriveIds

\* no folder of the drive has two parents
Forest(rem) == \A f \in DOMAIN rem : Len(rem[f]) <= 1

\* ---- C26: in a full scan of a forest every folder listed under a drive has a null
\* parent link, every other folder has as parent link the internal id that
\* the same scan gave, earlier, to the folder it was listed under, and the
\* children of a folder are only asked for once the folder has its internal id
C26_ScanLinks ==
  Forest(remote) =>
    /\ \A i \in ScannedIndex :
         IF ListedUnderDrive(allFolders[i])
         THEN allFolders[i].internal_parent_folder_id = Null
         ELSE \E j \in 1..(i - 1) :
                /\ allFolders[j].id = allFolders[i].parents[1]
                /\ allFolders[i].internal_parent_folder_id
                     = allFolders[j].internal_id
    /\ \A k \in 1..Len(scans) :
         (scans[k].kind = "list" /\ scans[k].parentId # Null) =>
           \E j \in ScannedIndex :
             /\ allFolders[j].id = scans[k].parentId
             /\ allFolders[j].internal_id = scans[k].internalParentId

C26_Witness ==
  /\ scanpc = "returned"
  /\ Len(allFolders) = 3
  /\ ListedUnderDrive(allFolders[1])
  /\ allFolders[1].internal_parent_folder_id = Null
  /\ allFolders[2].parents = <<allFolders[1].id>>
  /\ allFolders[2].internal_parent_folder_id = allFolders[1].internal_id
  /\ allFolders[3].parents = <<allFolders[2].id>>
  /\ allFolders[3].internal_parent_folder_id = allFolders[2].internal_id

\* ---- C27: a full scan gives a folder that is already persisted for the
\* connection the internal id of the persisted record
C27_ScanKeepsPersistedId ==
  \A i \in ScannedIndex :
    Has(store, allFolders[i].id)
      => allFolders[i].internal_id = store[allFolders[i].id].id

\* ---- claims about the passes of the loop
PassIndex == 1..Len(passes)
LastPass == passes[Len(passes)]

\* the pass resolved no folder: all it was given is still pending
ResolvedNothing(k) == passes[k].pending = passes[k].remaining

\* handleUnresolvedFolders has been called
FallbackEntered == pc = "fallback" \/ walks # <<>>

\* ---- C28: fallback resolution is entered exactly when a pass over a
\* non-empty list of folders resolves none of them, once per call and as the
\* last step of the loop; every pass that resolves a folder is followed by a
\* pass over exactly the folders it left pending, or by the return when it
\* left none
C28_FallbackWhenStuck ==
  /\ \A k \in PassIndex : Len(passes[k].remaining) > 0
  /\ \A k \in PassIndex \ {Len(passes)} :
       /\ ~ResolvedNothing(k)
       /\ passes[k + 1].remaining = passes[k].pending
  /\ FallbackEntered <=> (passes # <<>> /\ ResolvedNothing(Len(passes)))
  /\ FallbackEntered =>
       /\ pending = LastPass.pending
       /\ Len(walks) = Len(pending)
  /\ (passes # <<>> /\ ~FallbackEntered) =>
       /\ remainingFolders = LastPass.pending
       /\ Len(LastPass.pending) < Len(LastPass.remaining)
       /\ pc \in {"resolved", "saved"} => LastPass.pending = <<>>

C28_Witness ==
  /\ pc = "resolved"
  /\ Len(passes) = 3
  /\ Len(passes[1].remaining) = 3
  /\ Len(passes[2].remaining) = 2
  /\ Len(passes[3].remaining) = 1
  /\ ResolvedNothing(3)
  /\ Len(walks) = 1

\* ---- claims about the backoff waits
\* delays alternates the spacing of line 673 and the backoff of line 687:
\* the wait after the k-th consecutive quota failure, k = 0, 1, ...
BackoffWait(k) == delays[2 * k + 2]
BackoffsDone == Len(delays) \div 2

\* ---- C29: the backoff wait after the k-th consecutive quota failure of a
\* call is BASE_BACKOFF_MS * 2^k: the first is the base, each later one is
\* twice the one before, and the wait before the last permitted attempt is
\* BASE_BACKOFF_MS * 2^(MAX_API_RETRIES - 1)
C29_BackoffDoubles ==
  /\ BackoffsDone <= MAX_API_RETRIES
  /\ \A k \in 0..(BackoffsDone - 1) :
       /\ delays[2 * k + 1] = RATE_LIMIT_DELAY
       /\ isRateLimitError(attempts[k + 1].error)
       /\ BackoffWait(k) = BASE_BACKOFF_MS * (2 ^ k)
       /\ k > 0 => /\ BackoffWait(k) = 2 * BackoffWait(k - 1)
                   /\ BackoffWait(k) > BackoffWait(k - 1)
  /\ Len(attempts) = MAX_API_RETRIES + 1 =>
       /\ BackoffsDone = MAX_API_RETRIES
       /\ BackoffWait(MAX_API_RETRIES - 1)
            = BASE_BACKOFF_MS * (2 ^ (MAX_API_RETRIES - 1))

C29_Witness ==
  /\ Len(attempts) = MAX_API_RETRIES + 1
  /\ delays = <<RATE_LIMIT_DELAY, 1000, RATE_LIMIT_DELAY, 2000,
                RATE_LIMIT_DELAY, 4000, RATE_LIMIT_DELAY>>

\* ---- claims about the order of the steps of a run
\* the steps of every run so far, the current one last
StepsOfRuns == [k \in 1..Len(runs) |-> runs[k].steps] \o <<steps>>

\* ingestPermissionsForFolders has been called in the run with steps s
PermissionsCalled(s) == \E i \in 1..Len(s) : s[i] \in {"permissions", "ingested"}

\* ---- C30: in every run ingestPermissionsForFolders, which deduplicates and
\* ingests the permissions, is called only after the fetch has returned the
\* whole batch with its parents resolved, and a run whose fetch failed never
\* calls it
C30_PermissionsAfterFetch ==
  /\ \A r \in 1..Len(StepsOfRuns) :
       LET s == StepsOfRuns[r]
       IN /\ \A i \in 1..Len(s) :
               s[i] \in {"permissions", "ingested"}
                 => \E j \in 1..(i - 1) : s[j] = "fetched"
          /\ (\E i \in 1..Len(s) : s[i] = "fetch failed")
               => ~PermissionsCalled(s)
  /\ syncpc = "permissions" =>
       \E md \in mode :
         {syncFolders[k] : k \in 1..Len(syncFolders)}
           = fetched(md, drive, lastSyncTime)

C30_Witness ==
  /\ Len(runs) = 2
  /\ runs[1].steps = <<"fetch", "fetch failed">>
  /\ runs[2].steps = <<"fetch", "fetched", "permissions", "ingested",
                       "committed">>
  /\ Len(syncFolders) = 2

\* ---- C31: the call neither drops nor duplicates a folder: at no time does
\* the output hold a folder twice or a folder that is not of the batch, every
\* entry has an internal id, and when the call returns the output holds
\* exactly one entry for every folder of the batch, whether a pass or the
\* fallback resolved it
C31_OneEntryPerFolder ==
  /\ \A i, j \in OutIndex :
       foldersToSync[i].id = foldersToSync[j].id => i = j
  /\ OutIds \subseteq BatchIds
  /\ \A i \in OutIndex :
       /\ foldersToSync[i].internal_id # Null
       /\ foldersToSync[i].internal_id # ""
  /\ pc \in {"resolved", "saved"} =>
       /\ Len(foldersToSync) = Len(folders)
       /\ \A k \in 1..Len(folders) :
            Cardinality({i \in OutIndex :
                           foldersToSync[i].id = folders[k].id}) = 1

C31_Witness ==
  /\ pc = "resolved"
  /\ Len(folders) = 3
  /\ Len(foldersToSync) = 3
  /\ Len(passes) = 2
  /\ Len(passes[2].remaining) = 2
  /\ Len(walks) = 2

\* ---- claims about the links the fallback gives
\* the drive's parent references as a parent function
RemoteParent == [f \in DOMAIN remote |-> ParentRef([parents |-> remote[f]])]

\* the chain of remote parents of f leaves the folders of the drive: f is
\* neither on a cycle nor below one
ChainEnds(f) == Up(RemoteParent, f, Cardinality(DOMAIN remote) + 2) = Null

\* ---- C32: a folder whose remote parent is a folder of the same batch, the
\* two not being part of a cycle of references, is output with the internal
\* id that the same output gives to that parent, also when the fallback
\* resolved both (stated for the runs in which no remote call of a walk
\* failed)
C32_LinkedToBatchParent ==
  (pc = "resolved" /\ ~\E cause \in FetchFailures : WalkEndedBy(cause)) =>
    \A f \in BatchIds :
      (BatchParent[f] \in BatchIds /\ ChainEnds(f)) =>
        OutOf(f).internal_parent_folder_id
          = OutOf(BatchParent[f]).internal_id

\* ---- claims about the timing of the walks
\* the map of the run as the fallback found it: the folders the passes
\* resolved
MapOfPasses ==
  [f \in DOMAIN remote_folders |-> folderIdToInternalIdMap[f]]

\* the walk w run to its end while no other walk finishes: every lookup is
\* answered by the store and every drive.files.get by the drive
RECURSIVE AloneFrom(_)
AloneFrom(w) ==
  IF w.at = "done" THEN w.result
  ELSE IF w.at = "db"
  THEN AloneFrom(AfterResolve(w, findFolderId(store, w.target), MapOfPasses,
                              EmptyMap, remote_folders))
  ELSE IF Has(remote, w.target)
  THEN AloneFrom(Hop([w EXCEPT !.folder = [id |-> w.target,
                                           parents |-> remote[w.target]]],
                     MapOfPasses, EmptyMap, remote_folders))
  ELSE Null

WalkAlone(folder) ==
  AloneFrom(Hop(NewWalk(folder), MapOfPasses, EmptyMap, remote_folders))

\* the remote answers are those of the drive: a drive.files.get fails only
\* for a folder the drive does not have
FixedAnswers ==
  \A i \in 1..Len(walks) :
    walks[i].cause \in FetchFailures => ~Has(remote, walks[i].target)

\* ---- C33: for a given batch, store and drive, the parent link the fallback
\* gives a folder does not depend on which walk finishes first: it is the
\* link the folder's walk finds when it runs to its end before every other
\* walk
C33_WalkOrderIrrelevant ==
  (pc = "resolved" /\ FixedAnswers) =>
    \A i \in 1..Len(walks) :
      OutOf(walks[i].start.id).internal_parent_folder_id
        = WalkAlone(walks[i].start)

\* ---- claims about the order of the returned list
\* in the list, every entry whose parent link is the internal id of another
\* entry stands after that entry
ParentsFirst(list) ==
  \A i, j \in 1..Len(list) :
    (i # j /\ list[i].internal_parent_folder_id = list[j].internal_id)
      => j < i

\* ---- C34: in the list either fetch returns, the incremental one
\* (foldersToSync) and the full scan (allFolders), parents precede children
C34_ParentsPrecedeChildren ==
  /\ ParentsFirst(foldersToSync)
  /\ ParentsFirst(allFolders)

\* ---- claims about retried listings
TimesCollected(e) == Cardinality({i \in 1..Len(collected) : collected[i] = e})

\* ---- C35: a listing that met a quota failure on some page and returned
\* after the executor's retry holds each of the N remote entities exactly
\* once: the entities of the pages fetched before the failure are neither
\* lost nor duplicated
C35_RetriedListingExact ==
  (dpc = "returned" /\ QuotaFailures # {}) =>
    /\ \A e \in 1..Len(AllEntities) : TimesCollected(e) = 1
    /\ Len(collected) = Len(AllEntities)

C35_Witness ==
  /\ dpc = "returned"
  /\ listing = "modified"
  /\ pageSizes = <<2, 1>>
  /\ \E i \in QuotaFailures : events[i].page = 2
  /\ collected = <<1, 2, 3>>

\* ---- claims about the scan of drives with shared folders
\* the folders the drive lists under key
ChildrenOf(key) ==
  {f \in DOMAIN remote : \E k \in 1..Len(remote[f]) : remote[f][k] = key}

\* the folders reachable from the drive roots in at most n + 1 listings
RECURSIVE ReachableIn(_)
ReachableIn(n) ==
  IF n = 0 THEN UNION {ChildrenOf(d) : d \in DriveIds}
  ELSE ReachableIn(n - 1) \cup UNION {ChildrenOf(f) : f \in ReachableIn(n - 1)}

Reachable == ReachableIn(NumFolders)

\* ---- C36: the full scan of a finite drive, also of one whose folders list
\* each other as children, asks for the children of a folder once, holds no
\* folder twice, and returns with exactly the folders reachable from the
\* drive roots
C36_ScanVisitsOnce ==
  /\ \A k, l \in 1..Len(scans) :
       (scans[k].kind = "list" /\ scans[l].kind = "list"
          /\ scans[k].parentId = scans[l].parentId) => k = l
  /\ \A i, j \in ScannedIndex : allFolders[i].id = allFolders[j].id => i = j
  /\ scanpc = "returned" =>
       {allFolders[i].id : i \in ScannedIndex} = Reachable

\* ------------------------------------------------ helpscout handleCallback
\* OAuth callbacks of linked users arrive at the same service instance; each
\* await of the handler is a point where another callback may run.
NumCallbacks == 3

Callbacks == 1..NumCallbacks

LinkedUsers == {"lu1", "lu2"}

\* cryptoService.encrypt: the stored text is not the token
encrypt(token) == [cipher |-> token]

\* a row of the table as handleCallback writes it
Row(id, token, user, access, refresh) ==
  [id_connection |-> id, connection_token |-> token,
   provider_slug |-> "helpscout", vertical |-> "ticketing",
   token_type |-> "oauth", id_linked_user |-> user,
   access_token |-> access, refresh_token |-> refresh, status |-> "valid"]

\* the table before the callbacks arrive: empty, or lu1 is connected already
StoredConnections ==
  {<<>>, <<Row(uuidv4(1), uuidv4(2), "lu1", encrypt(0), encrypt(0))>>}

\* the where clause of findFirst
Matching(table, linkedUserId) ==
  {i \in 1..Len(table) :
     /\ table[i].id_linked_user = linkedUserId
     /\ table[i].provider_slug = "helpscout"
     /\ table[i].vertical = "ticketing"}

\* prisma.connections.update ... where id_connection
update(table, id, response) ==
  [i \in 1..Len(table) |->
     IF table[i].id_connection = id
     THEN [table[i] EXCEPT !.access_token = encrypt(response.access_token),
                           !.refresh_token = encrypt(response.refresh_token),
                           !.status = "valid"]
     ELSE table[i]]

\* prisma.connections.create: connection_token was minted as value n before
\* the branch, id_connection is minted in the data of the call
create(table, linkedUserId, response, n) ==
  Append(table, Row(uuidv4(n + 1), uuidv4(n), linkedUserId,
                    encrypt(response.access_token),
                    encrypt(response.refresh_token)))

CallbackInit ==
  /\ connections \in StoredConnections
  /\ minted = 2 * Len(connections)
  /\ cbpc \in [Callbacks -> [at : {"called"}, linkedUserId : LinkedUsers]]
  /\ isNotUnique = [c \in Callbacks |-> NoRow]
  /\ data = [c \in Callbacks |-> NoData]
  /\ ResolverIdle
  /\ ExecutorIdle
  /\ LookupIdle
  /\ MapperIdle
  /\ ScanIdle
  /\ DrainIdle
  /\ SyncIdle
  /\ PermIdle

CallbackUnchangedOthers ==
  UNCHANGED <<rvars, xvars, svars, dvars, yvars, pvars, qvars, mvars>>

\* lines 48-54: findFirst answers with a matching row, or with null
FindFirst(c) ==
  /\ cbpc[c].at = "called"
  /\ LET found == Matching(connections, cbpc[c].linkedUserId)
     IN \/ /\ found = {}
           /\ isNotUnique' = [isNotUnique EXCEPT ![c] = NoRow]
        \/ \E i \in found :
             isNotUnique' = [isNotUnique EXCEPT ![c] = connections[i]]
  /\ cbpc' = [cbpc EXCEPT ![c].at = "found"]
  /\ UNCHANGED <<connections, data, minted>>
  /\ CallbackUnchangedOthers

\* lines 56-76: getCredentials and the token request; either may throw, and
\* the catch of line 133 throws the error on
ExchangeCode(c) ==
  /\ cbpc[c].at = "found"
  /\ \/ /\ data' = [data EXCEPT ![c] =
                      [access_token |-> c, refresh_token |-> c]]
        /\ cbpc' = [cbpc EXCEPT ![c].at = "exchanged"]
     \/ /\ cbpc' = [cbpc EXCEPT ![c].at = "thrown"]
        /\ UNCHANGED data
  /\ UNCHANGED <<connections, isNotUnique, minted>>
  /\ CallbackUnchangedOthers

\* lines 81-132: connection_token is minted, then the row found is updated
\* or a new row is created
WriteConnection(c) ==
  /\ cbpc[c].at = "exchanged"
  /\ IF isNotUnique[c] # NoRow
     THEN /\ connections' = update(connections, isNotUnique[c].id_connection,
                                   data[c])
          /\ minted' = minted + 1
     ELSE /\ connections' = create(connections, cbpc[c].linkedUserId,
                                   data[c], minted + 1)
          /\ minted' = minted + 2
  /\ cbpc' = [cbpc EXCEPT ![c].at = "returned"]
  /\ UNCHANGED <<isNotUnique, data>>
  /\ CallbackUnchangedOthers

handleCallback(c) ==
  \/ FindFirst(c)
  \/ ExchangeCode(c)
  \/ WriteConnection(c)

NextCallback == \E c \in Callbacks : handleCallback(c)

SpecCallback == CallbackInit /\ [][NextCallback]_vars

\* ---- claims about handleCallback
ConnectionsOf(user) == Matching(connections, user)

\* every step that leaves the number of rows alone leaves the identifiers of
\* every row alone: an update is in place
UpdateKeepsIdentity ==
  [][Len(connections') = Len(connections) =>
       \A i \in 1..Len(connections) :
         /\ connections'[i].id_connection = connections[i].id_connection
         /\ connections'[i].connection_token = connections[i].connection_token
         /\ connections'[i].id_linked_user = connections[i].id_linked_user]_vars

\* C37: whatever the interleaving of the callbacks of a linked user, the user
\* has at most one helpscout ticketing connection
C37_AtMostOneConnection ==
  \A user \in LinkedUsers : Cardinality(ConnectionsOf(user)) <= 1

====
